---- MODULE Spec2Model ----
(***************************************************************************)
(* A model of the execution registry (GPUEngine), the resource compiler    *)
(* (Renderer) and the frame drawer (Drawer) of declarative-wgpu.           *)
(*                                                                         *)
(* JavaScript runs every handler to completion up to its next `await`, so  *)
(* one action of the model is one such run: the synchronous part of a      *)
(* call, or the continuation that runs when an awaited promise settles.    *)
(* GPU objects are heap cells: an executable, a shared reference record    *)
(* ({executable, count}) and a promise are named by their index in the     *)
(* sequences execs, refs and tasks, so that object identity (`!==`, a      *)
(* reference captured before an await) is what it is in the program.       *)
(***************************************************************************)
EXTENDS Integers, Sequences, FiniteSets, TLC

\* ------------------------------------------------------------------ bounds
MaxIds == 2          \* caller-visible entity ids 1..MaxIds
MaxShaders == 1      \* distinct shader sources 1..MaxShaders
MaxCalls == 4        \* API calls issued in one behaviour
MaxEvents == 2       \* length of the pending queue
MaxLoops == 2        \* frame loops that can be alive at once
MaxDrawList == 3     \* length of the drawer's entity list
MaxRegistryIds == 3  \* entity ids of the registry-only behaviours
MaxRegistryCalls == 4 \* calls made by the host in a registry-only behaviour
MaxAttributes == 2   \* attributes of a vertex descriptor
MaxElements == 2     \* elements (vertices) held by one attribute
MaxGroups == 2       \* bind groups of a program
MaxBindings == 2     \* bindings of a bind group
MaxOrderCalls == 6   \* calls made by a host that queues calls and goes on
                     \* calling during the drain
MaxSurface == 4      \* widths and heights 1..MaxSurface of the canvas
MaxDepthCalls == 2   \* draw() and stop() calls while the canvas is resized
MaxLocation == 1     \* shader locations 0..MaxLocation of the attributes of a cache key
MaxKeyAttributes == 1 \* attributes of a program whose cache key is computed
MaxSlotCalls == 2    \* calls that create global buffers and cameras around a createProgram
MaxScopeOperations == 2  \* operations in a row on one device
MaxScopeCameras == 2 \* active cameras of a frame whose error scopes are counted
MaxVertices == 60    \* vertex element counts 0..MaxVertices given to the index
                     \* buffer, next to the counts around MAX_U16

Ids == 1..MaxIds
Codes == 1..MaxShaders
Loops == 1..MaxLoops
RegistryIds == 1..MaxRegistryIds
\* a call starts at most one async invocation
TaskIds == 1..(MaxCalls + MaxRegistryCalls + MaxOrderCalls)

\* ------------------------------------------------------------ input domains
\* program.groups: no bind group at all, value slots only, or value slots and
\* a texture slot
GroupKinds == {"none", "buffer", "texture"}
\* program.vertexDescriptor: attributes that #createVertexBuffer accepts, with
\* an element count that differs from the first attribute's (RangeError), or
\* with a size of 1 or 3 for an 8/16-bit type (TypeError of #typeToFormat).
\* The three differ in the type and size of an attribute, not in its values.
AttribKinds == {"valid", "mismatch", "illegal"}
Programs == [code : Codes, groups : GroupKinds, attribs : AttribKinds]
ValidPrograms == {program \in Programs : program.attribs = "valid"}
\* the programs of the registry-only behaviours: one shader with value slots,
\* with each kind of vertex descriptor
RegistryPrograms == {program \in Programs : program.groups = "buffer"}
\* z arguments of update; Undefined is the omitted argument
\* (a number outside the z values of the model)
Undefined == 0 - 1
ZArgs == {0, Undefined}
\* global buffer names; DEFAULT_CAMERA_BUFFER_ID is the camera buffer
DEFAULT_CAMERA_BUFFER_ID == "camera"
BufferIds == {DEFAULT_CAMERA_BUFFER_ID, "light"}
\* contents written to a global buffer or held by a camera
Values == {"m1", "m2"}
SceneIds == {0}
CameraIds == {1, 2}
Methods == {"create", "addToScene", "removeFromScene", "freeEntity", "update",
            "createGlobalBuffer", "writeGlobalBuffer", "createCamera", "updateCamera"}

\* ------------------------------------------------------------------- state
VARIABLES
    isBusy,         \* GPUEngine.#isBusy
    inExecution,    \* GPUEngine.#inExecution
    events,         \* GPUEngine.#events: sequence of [method, args]
    idExecMap,      \* GPUEngine.#idExecMap: id -> [executable, shaderId] or NoEntity
    isPending,      \* GPUEngine.#isPending: id -> promise (index in tasks) or 0
    codeExecMap,    \* GPUEngine.#codeExecMap: shaderId -> index in refs or 0
    refs,           \* heap of GPUExecutableRefCounter objects [executable, count]
    execs,          \* heap of GPUExecutable objects
    rendererZ,      \* Renderer.#z
    globalBuffers,  \* Renderer.#globalBuffers: name -> contents or NoBuffer
    entities,       \* Drawer.#entities: sequence of executables (indices in execs)
    cameras,        \* Drawer.#cameras: sceneId -> sequence of [cameraId, values]
    tasks,          \* heap of suspended async invocations (promises)
    loops,          \* frame loops: the closure `draw` of GPUEngine.draw
    ran,            \* history: ran[i] = times events[i] was executed (capped at 2)
    frames,         \* history: [drew, afterStop, issued], what the last step did
                    \* with a frame
    callsLeft,      \* API calls that the host still makes in this behaviour
    surface,        \* the canvas of GPUEngine.ctx: [width, height]
    cvsTexture,     \* Drawer.#cvsTexture: [width, height] or NoTexture
    depthTexture,   \* Drawer.#depthTexture: [width, height] or NoTexture
    depthLive,      \* history: [now, peak, destroyed], the depth textures
                    \* created and not destroyed, now and at most at any moment
                    \* so far, and whether one was destroyed
    last,           \* history: [method, res], the call made by the last step if it
                    \* threw before its first await or was a draw() without effect
    input,          \* the arguments of a Renderer helper that is run on its own
    output          \* what that helper returned, threw and did to the GPU

vars == <<isBusy, inExecution, events, idExecMap, isPending, codeExecMap, refs,
          execs, rendererZ, globalBuffers, entities, cameras, tasks, loops, ran,
          frames, callsLeft, last, input, output, surface, cvsTexture,
          depthTexture, depthLive>>

NoEntity == [executable |-> 0, shaderId |-> 0]
NoBuffer == "absent"
Empty == "empty"     \* contents of a global buffer nothing was written to
NoProgram == [code |-> 0, groups |-> "none", attribs |-> "valid"]
\* the arguments of a call: every method uses the fields it has
NoArgs == [id |-> 0, program |-> NoProgram, z |-> Undefined, bufferId |-> "",
           values |-> "", sceneId |-> 0, cameraId |-> 0]
IdArgs(id) == [NoArgs EXCEPT !.id = id]
ProgramArgs(id, program) == [NoArgs EXCEPT !.id = id, !.program = program]
ZArgsOf(id, z) == [NoArgs EXCEPT !.id = id, !.z = z]
BufferArgs(bufferId, values) == [NoArgs EXCEPT !.bufferId = bufferId, !.values = values]
CameraArgs(sceneId, cameraId, values) ==
    [NoArgs EXCEPT !.sceneId = sceneId, !.cameraId = cameraId, !.values = values]
NoTask == [kind |-> "settled", id |-> 0, program |-> NoProgram, executable |-> 0, ref |-> 0,
           waiters |-> <<>>, owner |-> 0, args |-> NoArgs]
NoLoop == [pc |-> "none", i |-> 0, ready |-> FALSE]
NoCall == [method |-> "none", res |-> "none"]

\* The whole program state as one record, so that a handler is a function from
\* states to sets of outcomes and handlers compose as they do in the code.
Mem == [isBusy |-> isBusy, inExecution |-> inExecution, events |-> events,
        idExecMap |-> idExecMap, isPending |-> isPending, codeExecMap |-> codeExecMap,
        refs |-> refs, execs |-> execs, rendererZ |-> rendererZ,
        globalBuffers |-> globalBuffers, entities |-> entities, cameras |-> cameras,
        tasks |-> tasks, loops |-> loops, ran |-> ran]

Store(m) ==
    /\ isBusy' = m.isBusy
    /\ inExecution' = m.inExecution
    /\ events' = m.events
    /\ idExecMap' = m.idExecMap
    /\ isPending' = m.isPending
    /\ codeExecMap' = m.codeExecMap
    /\ refs' = m.refs
    /\ execs' = m.execs
    /\ rendererZ' = m.rendererZ
    /\ globalBuffers' = m.globalBuffers
    /\ entities' = m.entities
    /\ cameras' = m.cameras
    /\ tasks' = m.tasks
    /\ loops' = m.loops
    /\ ran' = m.ran
    /\ UNCHANGED <<input, output>>

\* outcome of running a handler until it returns, throws or suspends
Ok(m) == [m |-> m, res |-> "ok"]
Throw(m) == [m |-> m, res |-> "throw"]
Await(m) == [m |-> m, res |-> "await"]

\* ----------------------------------------------------------------- Drawer
NoTexture == [width |-> 0, height |-> 0]

targets == <<surface, cvsTexture, depthTexture, depthLive>>

Targets ==
    [surface |-> surface, cvsTexture |-> cvsTexture,
     depthTexture |-> depthTexture, depthLive |-> depthLive]

\* GPUTexture.destroy and GPUDevice.createTexture for a depth texture, with
\* the count of the live ones
destroy(t) ==
    [t EXCEPT !.depthLive.now = @ - 1, !.depthLive.destroyed = TRUE]

createTexture(t, size) ==
    [t EXCEPT !.depthTexture = size,
              !.depthLive = [@ EXCEPT
                               !.now = @ + 1,
                               !.peak = IF t.depthLive.now + 1 > @
                                        THEN t.depthLive.now + 1 ELSE @]]

\* a variant of getDepthTexture that destroys the old texture after it has
\* created the new one; the code does not do this
getDepthTextureThenDestroy(t) ==
    IF \/ t.depthTexture = NoTexture
       \/ t.cvsTexture.width # t.depthTexture.width
       \/ t.cvsTexture.height # t.depthTexture.height
    THEN LET created == createTexture(t, t.cvsTexture)
         IN IF t.depthTexture # NoTexture THEN destroy(created) ELSE created
    ELSE t

\* the getter Drawer.depthTexture (drawer.js 80-101)
getDepthTexture(t) ==
    IF \/ t.depthTexture = NoTexture
       \/ t.cvsTexture.width # t.depthTexture.width
       \/ t.cvsTexture.height # t.depthTexture.height
    THEN createTexture(IF t.depthTexture # NoTexture THEN destroy(t) ELSE t,
                       t.cvsTexture)
    ELSE t

\* Drawer.#createCommandEncoder: the texture of the canvas, which has the
\* canvas's size, and the depth texture are attached to the render pass
createCommandEncoder(t) ==
    getDepthTexture([t EXCEPT !.cvsTexture = t.surface])

\* the render targets after Drawer.draw
Render ==
    LET t == createCommandEncoder(Targets) IN
    /\ cvsTexture' = t.cvsTexture
    /\ depthTexture' = t.depthTexture
    /\ depthLive' = t.depthLive
    /\ UNCHANGED surface

Range(s) == {s[i] : i \in DOMAIN s}

\* Drawer.add
add(list, entity) == Append(list, entity)

\* Drawer.remove: removes the first entry that is this very object
RECURSIVE remove(_, _)
remove(list, entity) ==
    IF list = <<>> THEN <<>>
    ELSE IF Head(list) = entity THEN Tail(list)
    ELSE <<Head(list)>> \o remove(Tail(list), entity)

\* the comparator (a,b) => a.z - b.z is a number for every pair of the list
Comparable(list, ex) == \A i \in DOMAIN list : ex[list[i]].z # Undefined

RECURSIVE InsertByZ(_, _, _)
InsertByZ(sorted, e, ex) ==
    IF sorted = <<>> THEN <<e>>
    ELSE IF ex[Head(sorted)].z <= ex[e].z
         THEN <<Head(sorted)>> \o InsertByZ(Tail(sorted), e, ex)
         ELSE <<e>> \o sorted

RECURSIVE SortByZ(_, _)
SortByZ(list, ex) ==
    IF list = <<>> THEN <<>>
    ELSE InsertByZ(SortByZ(SubSeq(list, 1, Len(list) - 1), ex), list[Len(list)], ex)

Orderings(list) ==
    {s \in [DOMAIN list -> Range(list)] :
        \A x \in Range(list) :
            Cardinality({i \in DOMAIN list : s[i] = x})
                = Cardinality({i \in DOMAIN list : list[i] = x})}

\* a z that is undefined makes the comparator return NaN, which sort takes
\* for +0 (equal): the comparator is then not a consistent one for this list
\* when two entries with different numbers as z are both equal to a third
Inconsistent(list, ex) ==
    /\ ~Comparable(list, ex)
    /\ \E i, j \in DOMAIN list :
          /\ ex[list[i]].z # Undefined
          /\ ex[list[j]].z # Undefined
          /\ ex[list[i]].z # ex[list[j]].z

\* Drawer.sort: Array.prototype.sort is stable. With a comparator that is not
\* consistent the resulting order is implementation-defined: any permutation.
\* With undefined z keys and no two different numbers every pair compares
\* equal, and the list stays as it is.
sort(list, ex) ==
    IF Comparable(list, ex) THEN {SortByZ(list, ex)}
    ELSE IF Inconsistent(list, ex) THEN Orderings(list)
    ELSE {list}

\* a variant of addCamera that registers the camera anew (delete, then set):
\* a camera that was there moves to the end of its scene; the code does not
\* do this
addCameraAtEnd(cams, values, sceneId, cameraId) ==
    LET scene == cams[sceneId]
        kept == SelectSeq(scene, LAMBDA c : c.cameraId # cameraId)
    IN [cams EXCEPT ![sceneId] =
            Append(kept, [cameraId |-> cameraId, values |-> values])]

\* Drawer.addCamera: Map.set keeps the position of a key that is already there
addCamera(cams, values, sceneId, cameraId) ==
    LET scene == cams[sceneId] IN
    IF \E i \in DOMAIN scene : scene[i].cameraId = cameraId
    THEN [cams EXCEPT ![sceneId] =
            [i \in DOMAIN scene |->
                IF scene[i].cameraId = cameraId
                THEN [cameraId |-> cameraId, values |-> values] ELSE scene[i]]]
    ELSE [cams EXCEPT ![sceneId] =
            Append(scene, [cameraId |-> cameraId, values |-> values])]

\* ---------------------------------------------------------------- Renderer
\* GPUEngine.#getShaderId + #attribToString: the cache key of a program; the
\* programs of this model differ in their shader text only
getShaderId(program) == program.code

\* the cell of an executable whose createProgram/cloneProgram has not returned
\* yet: #createUniformBuffer has run (no buffer when program.groups is empty)
NewExec(m, program) ==
    [built |-> FALSE, pipeline |-> 0,
     uniformBuffer |-> IF program.groups = "none" THEN 0 ELSE Len(m.execs) + 1,
     bindGroups |-> 0, texture |-> 0, z |-> Undefined,
     shaderId |-> getShaderId(program),
     destroyedUniform |-> 0, destroyedVertex |-> 0, destroyedTexture |-> 0]

\* a variant of Renderer.createGlobalBuffer without the test of
\* `this.#globalBuffers.has( bufferId )`: a buffer that exists is replaced by
\* a new one; the code does not do this
rendererCreateGlobalBufferAnew(m, bufferId) ==
    Ok([m EXCEPT !.globalBuffers[bufferId] = Empty])

\* Renderer.createGlobalBuffer
rendererCreateGlobalBuffer(m, bufferId) ==
    IF m.globalBuffers[bufferId] # NoBuffer THEN Throw(m)
    ELSE Ok([m EXCEPT !.globalBuffers[bufferId] = Empty])

\* Renderer.writeGlobalBuffer
rendererWriteGlobalBuffer(m, bufferId, values) ==
    IF m.globalBuffers[bufferId] = NoBuffer THEN Throw(m)
    ELSE Ok([m EXCEPT !.globalBuffers[bufferId] = values])

\* Renderer.hasDefaultCamera
hasDefaultCamera(m) == m.globalBuffers[DEFAULT_CAMERA_BUFFER_ID] # NoBuffer

\* --------------------------------------------------------------- GPUEngine
has(m, id) == m.idExecMap[id] # NoEntity

\* a variant of defer that puts the call at the head of the queue (unshift
\* instead of push); the code does not do this
deferAtHead(m, method, args) ==
    Ok([m EXCEPT !.events = <<[method |-> method, args |-> args]>> \o @,
                 !.ran = <<0>> \o @])

\* the `if( this.#isBusy ){ this.#events.push(...); return; }` head of every
\* mutating method
defer(m, method, args) ==
    Ok([m EXCEPT !.events = Append(@, [method |-> method, args |-> args]),
                 !.ran = Append(@, 0)])

\* what happens to the frame loop that awaits a drained call when the call's
\* promise settles: it goes on with the next event, or the rejection ends it
Settle(m, owner, res) ==
    IF owner = 0 THEN m
    ELSE IF res = "ok" THEN [m EXCEPT !.loops[owner].ready = TRUE]
    ELSE [m EXCEPT !.loops[owner] = NoLoop]

\* a variant of WaitOrThrow that does not look at #isPending: every id that is
\* not registered is an unknown id; the code does not do this
WaitOrThrowUnknown(m, id, method, args, owner) == Throw(m)

\* the `if( !this.#idExecMap.has( id ) )` block of freeEntity, addToScene,
\* removeFromScene and update, for an id that is not registered: wait for the
\* promise of the create in flight, or throw
WaitOrThrow(m, id, method, args, owner) ==
    LET promise == m.isPending[id] IN
    IF promise # 0 /\ m.tasks[promise].kind = "rejected"
    \* the await of a rejected promise throws its reason in the caller
    THEN Throw(m)
    ELSE IF promise # 0
    THEN Await([m EXCEPT !.tasks[promise].waiters =
                    Append(@, [method |-> method, args |-> args, owner |-> owner])])
    ELSE Throw(m)

\* a variant of create without the test of `this.#idExecMap.has( id )`: an id
\* that is in use is compiled and registered again; the code does not do this
createInUse(m, id, program, owner) ==
    IF m.isBusy THEN {defer(m, "create", ProgramArgs(id, program))}
    ELSE
        LET shaderId == getShaderId(program)
            e == Len(m.execs) + 1
            t == Len(m.tasks) + 1
            task == [NoTask EXCEPT !.id = id, !.program = program,
                                   !.executable = e, !.owner = owner]
            m1 == [m EXCEPT !.execs = Append(@, NewExec(m, program))]
        IN
        IF m.codeExecMap[shaderId] # 0
        THEN {Await([m1 EXCEPT !.tasks = Append(@,
                        [task EXCEPT !.kind = "clone", !.ref = m.codeExecMap[shaderId]])])}
        ELSE IF program.attribs # "valid"
        \* #createVertexBuffer throws inside the async createProgram: the
        \* promise is rejected at once and no executable will exist
        THEN {Await([m EXCEPT !.tasks = Append(@, [task EXCEPT !.kind = "create",
                                                                !.executable = 0]),
                              !.isPending[id] = t])}
        ELSE {Await([m1 EXCEPT !.tasks = Append(@, [task EXCEPT !.kind = "create"]),
                               !.isPending[id] = t])}

\* GPUEngine.create up to its await (gpu-engine.js 179-208)
create(m, id, program, owner) ==
    IF m.isBusy THEN {defer(m, "create", ProgramArgs(id, program))}
    ELSE IF has(m, id) THEN {Throw(m)}
    ELSE
        LET shaderId == getShaderId(program)
            e == Len(m.execs) + 1
            t == Len(m.tasks) + 1
            task == [NoTask EXCEPT !.id = id, !.program = program,
                                   !.executable = e, !.owner = owner]
            m1 == [m EXCEPT !.execs = Append(@, NewExec(m, program))]
        IN
        IF m.codeExecMap[shaderId] # 0
        THEN {Await([m1 EXCEPT !.tasks = Append(@,
                        [task EXCEPT !.kind = "clone", !.ref = m.codeExecMap[shaderId]])])}
        ELSE IF program.attribs # "valid"
        \* #createVertexBuffer throws inside the async createProgram: the
        \* promise is rejected at once and no executable will exist
        THEN {Await([m EXCEPT !.tasks = Append(@, [task EXCEPT !.kind = "create",
                                                                !.executable = 0]),
                              !.isPending[id] = t])}
        ELSE {Await([m1 EXCEPT !.tasks = Append(@, [task EXCEPT !.kind = "create"]),
                               !.isPending[id] = t])}

\* the rest of GPUEngine.addToScene once the id is known (gpu-engine.js 349-350)
addToSceneRest(m, id) ==
    IF ~has(m, id) THEN {Throw(m)}
    ELSE LET list == add(m.entities, m.idExecMap[id].executable) IN
         {Ok([m EXCEPT !.entities = sorted]) : sorted \in sort(list, m.execs)}

\* GPUEngine.addToScene up to its await
addToScene(m, id, owner) ==
    IF m.isBusy THEN {defer(m, "addToScene", IdArgs(id))}
    ELSE IF ~has(m, id) THEN {WaitOrThrow(m, id, "addToScene", IdArgs(id), owner)}
    ELSE addToSceneRest(m, id)

\* the rest of GPUEngine.removeFromScene (gpu-engine.js 375)
removeFromSceneRest(m, id) ==
    IF ~has(m, id) THEN {Throw(m)}
    ELSE {Ok([m EXCEPT !.entities = remove(@, m.idExecMap[id].executable)])}

\* GPUEngine.removeFromScene up to its await
removeFromScene(m, id, owner) ==
    IF m.isBusy THEN {defer(m, "removeFromScene", IdArgs(id))}
    ELSE IF ~has(m, id) THEN {WaitOrThrow(m, id, "removeFromScene", IdArgs(id), owner)}
    ELSE removeFromSceneRest(m, id)

\* executable.updateBinding( 0, 0, <number[]> ): `'width' in uniforms[0][0]`
\* throws when the program has no bind group (uniforms is empty)
updateBinding(m, e) == IF m.execs[e].uniformBuffer = 0 THEN Throw(m) ELSE Ok(m)

\* the rest of GPUEngine.update (gpu-engine.js 405-409)
updateRest(m, id, z) ==
    IF ~has(m, id) THEN {Throw(m)}
    ELSE LET updated == m.idExecMap[id].executable
             ex == [m.execs EXCEPT ![updated].z = z]
         IN {updateBinding([m EXCEPT !.execs = ex, !.entities = sorted], updated) :
                sorted \in sort(m.entities, ex)}

\* a variant of update that returns without an error for an id that is not
\* registered; the code does not do this
updateIgnoringUnknown(m, id, z, owner) ==
    IF m.isBusy THEN {defer(m, "update", ZArgsOf(id, z))}
    ELSE IF ~has(m, id) THEN {Ok(m)}
    ELSE updateRest(m, id, z)

\* GPUEngine.update up to its first await
update(m, id, z, owner) ==
    IF m.isBusy THEN {defer(m, "update", ZArgsOf(id, z))}
    ELSE IF ~has(m, id) THEN {WaitOrThrow(m, id, "update", ZArgsOf(id, z), owner)}
    ELSE updateRest(m, id, z)

\* GPUBuffer.destroy / GPUTexture.destroy of the buffers that executable b
\* created; the counts record how often each was destroyed
destroyUniform(ex, b) == [ex EXCEPT ![b].destroyedUniform = @ + 1]
destroyVertex(ex, b) == [ex EXCEPT ![b].destroyedVertex = @ + 1]
destroyTexture(ex, b) == IF b = 0 THEN ex ELSE [ex EXCEPT ![b].destroyedTexture = @ + 1]

\* the rest of GPUEngine.freeEntity (gpu-engine.js 245-270); the promise of
\* the inner removeFromScene call is dropped, its effects are not
freeEntityRest(m, id) ==
    {   LET m1 == o.m
            idRef == m1.idExecMap[id]
            ref == m1.codeExecMap[idRef.shaderId]
        IN
        IF idRef = NoEntity THEN Throw(m1)
        ELSE IF ref = 0 THEN Throw(m1)
        ELSE
            LET shared == m1.refs[ref].executable
                m2 == [m1 EXCEPT !.refs[ref].count = @ - 1,
                                 !.entities = remove(@, idRef.executable)]
                count == m2.refs[ref].count
            IN
            IF m2.execs[shared].uniformBuffer = 0 THEN Throw(m2)
            ELSE
                LET ex1 == destroyUniform(m2.execs, m2.execs[shared].uniformBuffer)
                    ex2 == IF count <= 0
                           THEN destroyTexture(
                                    destroyVertex(ex1, m2.execs[shared].pipeline),
                                    m2.execs[shared].texture)
                           ELSE ex1
                IN Ok([m2 EXCEPT !.execs = ex2,
                                 !.codeExecMap[idRef.shaderId] =
                                     IF count <= 0 THEN 0 ELSE @,
                                 !.idExecMap[id] = NoEntity])
      : o \in removeFromScene(m, id, 0) }

\* a variant of freeEntity that returns without an error for an id that is
\* not registered; the code does not do this
freeEntityIgnoringUnknown(m, id, owner) ==
    IF m.isBusy THEN {defer(m, "freeEntity", IdArgs(id))}
    ELSE IF ~has(m, id) THEN {Ok(m)}
    ELSE freeEntityRest(m, id)

\* GPUEngine.freeEntity up to its await
freeEntity(m, id, owner) ==
    IF m.isBusy THEN {defer(m, "freeEntity", IdArgs(id))}
    ELSE IF ~has(m, id) THEN {WaitOrThrow(m, id, "freeEntity", IdArgs(id), owner)}
    ELSE freeEntityRest(m, id)

\* GPUEngine.createGlobalBuffer
createGlobalBuffer(m, bufferId, owner) ==
    IF m.isBusy THEN {defer(m, "createGlobalBuffer", BufferArgs(bufferId, ""))}
    ELSE {rendererCreateGlobalBuffer(m, bufferId)}

\* GPUEngine.writeGlobalBuffer
writeGlobalBuffer(m, bufferId, values, priority) ==
    IF ~priority /\ m.isBusy THEN {defer(m, "writeGlobalBuffer", BufferArgs(bufferId, values))}
    ELSE {rendererWriteGlobalBuffer(m, bufferId, values)}

\* GPUEngine.createCamera up to its first await
createCamera(m, sceneId, cameraId, values, owner) ==
    IF m.isBusy THEN {defer(m, "createCamera", CameraArgs(sceneId, cameraId, values))}
    ELSE IF ~hasDefaultCamera(m)
    THEN {Await([m EXCEPT
            !.globalBuffers = rendererCreateGlobalBuffer(m, DEFAULT_CAMERA_BUFFER_ID).m.globalBuffers,
            !.tasks = Append(@, [NoTask EXCEPT !.kind = "cameraWrite", !.owner = owner,
                                               !.args = CameraArgs(sceneId, cameraId, values)])])}
    ELSE {Ok([m EXCEPT !.cameras = addCamera(@, values, sceneId, cameraId)])}

\* Drawer.updateCamera
drawerUpdateCamera(m, values, sceneId, cameraId) ==
    LET scene == m.cameras[sceneId] IN
    IF scene = <<>> THEN Throw(m)
    ELSE IF ~(\E i \in DOMAIN scene : scene[i].cameraId = cameraId) THEN Throw(m)
    ELSE Ok([m EXCEPT !.cameras = addCamera(@, values, sceneId, cameraId)])

\* GPUEngine.updateCamera
updateCamera(m, sceneId, cameraId, values) ==
    IF m.isBusy THEN {defer(m, "updateCamera", CameraArgs(sceneId, cameraId, values))}
    ELSE {drawerUpdateCamera(m, values, sceneId, cameraId)}

\* Entity.create (entity.js 169-173): create and addToScene are called back to
\* back; both are async, so neither throws into the caller
entityCreate(m, id, program) ==
    UNION {addToScene(o.m, id, 0) : o \in create(m, id, program, 0)}

\* Entity.update (entity.js 191-194): update is called without a z argument
entityUpdate(m, id) == update(m, id, Undefined, 0)

\* this[ event.method ]( ...event.args ), as the frame loop `owner` calls it
Invoke(m, ev, owner) ==
    LET a == ev.args IN
    CASE ev.method = "create" -> create(m, a.id, a.program, owner)
      [] ev.method = "addToScene" -> addToScene(m, a.id, owner)
      [] ev.method = "removeFromScene" -> removeFromScene(m, a.id, owner)
      [] ev.method = "freeEntity" -> freeEntity(m, a.id, owner)
      [] ev.method = "update" -> update(m, a.id, a.z, owner)
      [] ev.method = "createGlobalBuffer" -> createGlobalBuffer(m, a.bufferId, owner)
      [] ev.method = "writeGlobalBuffer" ->
            writeGlobalBuffer(m, a.bufferId, a.values, FALSE)
      [] ev.method = "createCamera" ->
            createCamera(m, a.sceneId, a.cameraId, a.values, owner)
      [] ev.method = "updateCamera" ->
            updateCamera(m, a.sceneId, a.cameraId, a.values)

\* ------------------------------------------------ continuations after await
\* createProgram / cloneProgram return: the executable object exists from now
\* on; `source` is the executable whose pipeline and vertex/index buffers it
\* carries (itself for createProgram); #createBindGroup has made its bind
\* groups and its texture
Build(m, e, source, program) ==
    [m EXCEPT !.execs[e].built = TRUE,
              !.execs[e].pipeline = source,
              !.execs[e].bindGroups = e,
              !.execs[e].texture = IF program.groups = "texture" THEN e ELSE 0,
              !.execs[e].z = m.rendererZ,
              !.rendererZ = @ + 1]

\* a call that waited for the promise of a create goes on
Resume(m, w) ==
    LET outs == CASE w.method = "addToScene" -> addToSceneRest(m, w.args.id)
                  [] w.method = "removeFromScene" -> removeFromSceneRest(m, w.args.id)
                  [] w.method = "update" -> updateRest(m, w.args.id, w.args.z)
                  [] w.method = "freeEntity" -> freeEntityRest(m, w.args.id)
    IN {Settle(o.m, w.owner, o.res) : o \in outs}

\* the promise reactions run in the order in which the calls awaited it
RECURSIVE RunWaiters(_, _)
RunWaiters(ms, waiters) ==
    IF waiters = <<>> THEN ms
    ELSE RunWaiters(UNION {Resume(m, Head(waiters)) : m \in ms}, Tail(waiters))

\* `await promise` throws in create and in every call that waited for the
\* promise: none of them does anything more (gpu-engine.js 208, 240)
RECURSIVE RejectWaiters(_, _)
RejectWaiters(m, waiters) ==
    IF waiters = <<>> THEN m
    ELSE RejectWaiters(Settle(m, Head(waiters).owner, "throw"), Tail(waiters))

\* GPUEngine.create after `await promise` (gpu-engine.js 208-219), then the
\* calls that waited for the same promise; a rejected promise stays in
\* #isPending
createRest(m, t) ==
    LET task == m.tasks[t]
        e == task.executable
        shaderId == getShaderId(task.program)
        m1 == Build(m, e, e, task.program)
        m2 == [m1 EXCEPT !.idExecMap[task.id] = [executable |-> e, shaderId |-> shaderId],
                         !.refs = Append(@, [executable |-> e, count |-> 1]),
                         !.codeExecMap[shaderId] = Len(m1.refs) + 1,
                         !.isPending[task.id] = 0,
                         !.tasks[t] = NoTask]
    IN IF task.program.attribs = "valid"
       THEN RunWaiters({Settle(m2, task.owner, "ok")}, task.waiters)
       ELSE {RejectWaiters(
                Settle([m EXCEPT !.tasks[t] = [NoTask EXCEPT !.kind = "rejected"]],
                       task.owner, "throw"),
                task.waiters)}

\* a variant of cloneRest in which cloneProgram returns `{...executable}` as it
\* is, with the uniform buffer and the bind groups of the shared executable;
\* the code does not do this
cloneRestSharingUniforms(m, t) ==
    LET task == m.tasks[t]
        e == task.executable
        shared == m.refs[task.ref].executable
        m1 == Build(m, e, m.execs[shared].pipeline, task.program)
        m2 == [m1 EXCEPT !.execs[e].uniformBuffer = m.execs[shared].uniformBuffer,
                         !.execs[e].bindGroups = m.execs[shared].bindGroups,
                         !.idExecMap[task.id] =
                             [executable |-> e, shaderId |-> getShaderId(task.program)],
                         !.refs[task.ref].count = @ + 1,
                         !.tasks[t] = NoTask]
    IN {Settle(m2, task.owner, "ok")}

\* GPUEngine.create after `await this.#renderer.cloneProgram(...)`
\* (gpu-engine.js 198-202); ref is the object read before the await
cloneRest(m, t) ==
    LET task == m.tasks[t]
        e == task.executable
        source == m.execs[m.refs[task.ref].executable].pipeline
        m1 == Build(m, e, source, task.program)
        m2 == [m1 EXCEPT !.idExecMap[task.id] =
                             [executable |-> e, shaderId |-> getShaderId(task.program)],
                         !.refs[task.ref].count = @ + 1,
                         !.tasks[t] = NoTask]
    IN {Settle(m2, task.owner, "ok")}

\* GPUEngine.createCamera after its first await (gpu-engine.js 477)
cameraWriteRest(m, t) ==
    LET task == m.tasks[t]
        o == rendererWriteGlobalBuffer(m, DEFAULT_CAMERA_BUFFER_ID, task.args.values)
    IN IF o.res = "throw" THEN {Settle([m EXCEPT !.tasks[t] = NoTask], task.owner, "throw")}
       ELSE {[o.m EXCEPT !.tasks[t].kind = "cameraAdd"]}

\* GPUEngine.createCamera after its second await (gpu-engine.js 480)
cameraAddRest(m, t) ==
    LET task == m.tasks[t]
        m1 == [m EXCEPT !.cameras = addCamera(@, task.args.values, task.args.sceneId, task.args.cameraId),
                        !.tasks[t] = NoTask]
    IN {Settle(m1, task.owner, "ok")}

\* what Drawer.draw does with the GPU, in order
NoOp == [op |-> "none", values |-> "", list |-> <<>>]
Begin == [NoOp EXCEPT !.op = "beginRenderPass"]
Write(values) == [NoOp EXCEPT !.op = "writeGlobalBuffer", !.values = values]
RejectedWrite == [NoOp EXCEPT !.op = "rejected"]
Issue(list) == [NoOp EXCEPT !.op = "draw", !.list = list]
Submit == [NoOp EXCEPT !.op = "submit"]

\* the priority call of GPUEngine.writeGlobalBuffer in Drawer.draw (drawer.js
\* 236-242): Renderer.writeGlobalBuffer writes the queue before its promise
\* is returned, or rejects without a write when the buffer does not exist
cameraWrite(m, values) ==
    IF rendererWriteGlobalBuffer(m, DEFAULT_CAMERA_BUFFER_ID, values).res = "ok"
    THEN Write(values) ELSE RejectedWrite

\* a variant of drawerIssues that writes every camera to the camera buffer and
\* then issues the draw list once; the code does not do this
drawerIssuesOnce(m) ==
    LET cams == m.cameras[0] IN
    <<Begin>> \o [i \in DOMAIN cams |-> cameraWrite(m, cams[i].values)]
              \o <<Issue(m.entities), Submit>>

\* Drawer.draw (drawer.js 227-249): one command encoder and render pass, the
\* draw list once per camera of the scene after the write of that camera, or
\* once without a write when the scene has no camera, then one submit
drawerIssues(m) ==
    LET cams == m.cameras[0] IN
    <<Begin>> \o (IF cams = <<>> THEN <<Issue(m.entities)>>
                  ELSE [k \in 1..(2 * Len(cams)) |->
                          IF k % 2 = 1
                          THEN cameraWrite(m, cams[(k + 1) \div 2].values)
                          ELSE Issue(m.entities)])
              \o <<Submit>>

\* -------------------------------------------------------------- frame loop
\* Drawer.draw: with cameras in the current scene (scene 0, the drawer's
\* default) every camera is written to the camera buffer before the draw list
\* is issued, so the buffer ends with the last camera's values
drawerDraw(m) ==
    LET active == m.cameras[0] IN
    IF active = <<>> THEN m
    ELSE rendererWriteGlobalBuffer(m, DEFAULT_CAMERA_BUFFER_ID,
                                   active[Len(active)].values).m

\* the for loop of the closure `draw` (gpu-engine.js 294-298) from index i on,
\* up to its next await: the call of events[i], or requestAnimationFrame
Drain(m, l, i) ==
    IF i > Len(m.events)
    THEN {[m EXCEPT !.loops[l] = [pc |-> "scheduled", i |-> 0, ready |-> FALSE]]}
    ELSE LET m1 == [m EXCEPT !.loops[l] = [pc |-> "await", i |-> i, ready |-> FALSE],
                             !.ran[i] = IF @ < 2 THEN @ + 1 ELSE @]
         IN {IF o.res = "await" THEN o.m ELSE Settle(o.m, l, o.res) :
                o \in Invoke(m1, m1.events[i], l)}

\* one run of the closure `draw` (gpu-engine.js 285-299) up to its first await
tick(m, l) ==
    LET m1 == drawerDraw([m EXCEPT !.isBusy = TRUE]) IN
    IF ~m1.inExecution THEN {[m1 EXCEPT !.loops[l] = NoLoop]}
    ELSE Drain([m1 EXCEPT !.isBusy = FALSE], l, 1)

\* ------------------------------------------------------------------ actions
Within(m) ==
    /\ Len(m.events) <= MaxEvents
    /\ Len(m.entities) <= MaxDrawList

\* an API call from the host: the handler runs up to its first await
Call(method, outs) ==
    /\ \E o \in outs : /\ Within(o.m) /\ Store(o.m)
                        /\ last' = IF o.res = "throw"
                                   THEN [method |-> method, res |-> "throw"]
                                   ELSE NoCall
    /\ callsLeft' = callsLeft - 1
    /\ frames' = [frames EXCEPT !.drew = FALSE, !.issued = <<>>]
    /\ UNCHANGED targets

\* a continuation, run by the host's job queue
Continue(ms) ==
    /\ \E m \in ms : Within(m) /\ Store(m)
    /\ last' = NoCall
    /\ frames' = [frames EXCEPT !.drew = FALSE, !.issued = <<>>]
    /\ UNCHANGED callsLeft
    /\ UNCHANGED targets

\* a run of the closure `draw` that draws a frame
Frame(ms) ==
    /\ \E m \in ms : Within(m) /\ Store(m)
    /\ frames' = [drew |-> TRUE,
                  afterStop |-> IF inExecution THEN 0 ELSE frames.afterStop + 1,
                  issued |-> drawerIssues(Mem)]
    /\ last' = NoCall
    /\ Render

Create(id, program) ==
    /\ callsLeft > 0
    /\ Call("create", create(Mem, id, program, 0))

AddToScene(id) ==
    /\ callsLeft > 0
    /\ Call("addToScene", addToScene(Mem, id, 0))

RemoveFromScene(id) ==
    /\ callsLeft > 0
    /\ Call("removeFromScene", removeFromScene(Mem, id, 0))

FreeEntity(id) ==
    /\ callsLeft > 0
    /\ Call("freeEntity", freeEntity(Mem, id, 0))

Update(id, z) ==
    /\ callsLeft > 0
    /\ Call("update", update(Mem, id, z, 0))

CreateGlobalBuffer(bufferId) ==
    /\ callsLeft > 0
    /\ Call("createGlobalBuffer", createGlobalBuffer(Mem, bufferId, 0))

WriteGlobalBuffer(bufferId, values, priority) ==
    /\ callsLeft > 0
    /\ Call("writeGlobalBuffer", writeGlobalBuffer(Mem, bufferId, values, priority))

CreateCamera(sceneId, cameraId, values) ==
    /\ callsLeft > 0
    /\ Call("createCamera", createCamera(Mem, sceneId, cameraId, values, 0))

UpdateCamera(sceneId, cameraId, values) ==
    /\ callsLeft > 0
    /\ Call("updateCamera", updateCamera(Mem, sceneId, cameraId, values))

\* the host calls create() of an Entity object
EntityCreate(id, program) ==
    /\ callsLeft > 0
    /\ Call("Entity.create", entityCreate(Mem, id, program))

\* the host calls update() of an Entity object
EntityUpdate(id) ==
    /\ callsLeft > 0
    /\ Call("Entity.update", entityUpdate(Mem, id))

\* createProgram awaits an image decode: the program has a texture slot and
\* #createVertexBuffer has not thrown before #createBindGroup is reached
Decodes(task) == task.program.groups = "texture" /\ task.program.attribs = "valid"

\* A continuation that needs no image is a job of the host's microtask queue:
\* it runs before the host starts its next task (a frame callback, the end of
\* an image fetch). Only a program with a texture slot suspends for longer.
MicrotaskPending ==
    \/ \E t \in DOMAIN tasks :
          \/ tasks[t].kind \in {"cameraWrite", "cameraAdd"}
          \/ tasks[t].kind = "clone" /\ tasks[t].program.groups # "texture"
          \/ tasks[t].kind = "create" /\ ~Decodes(tasks[t])
    \/ \E l \in Loops : loops[l].pc = "await" /\ loops[l].ready

\* the step is a task of the host or a job of its microtask queue
Scheduled(t) ==
    (IF tasks[t].kind = "create" THEN Decodes(tasks[t])
     ELSE tasks[t].program.groups = "texture") => ~MicrotaskPending

\* a variant of Draw without the test of #inExecution: every call runs the
\* closure `draw`; the code does not do this
DrawAgain ==
    /\ callsLeft > 0
    /\ callsLeft' = callsLeft - 1
    /\ last' = NoCall
    /\ \E l \in Loops :
          /\ loops[l].pc = "none"
          /\ \A k \in Loops : k < l => loops[k].pc # "none"
          /\ \E m \in tick([Mem EXCEPT !.inExecution = TRUE], l) :
                  Within(m) /\ Store(m)
          /\ frames' = [drew |-> TRUE, afterStop |-> 0,
                             issued |-> drawerIssues(Mem)]
          /\ Render

\* GPUEngine.draw: a no-op while the loop runs, else the first run of `draw`
Draw ==
    /\ callsLeft > 0
    /\ callsLeft' = callsLeft - 1
    /\ last' = IF inExecution THEN [method |-> "draw", res |-> "noop"] ELSE NoCall
    /\ IF inExecution
       THEN /\ frames' = [frames EXCEPT !.drew = FALSE, !.issued = <<>>]
            /\ Store(Mem)
            /\ UNCHANGED targets
       ELSE \E l \in Loops :
                /\ loops[l].pc = "none"
                /\ \A k \in Loops : k < l => loops[k].pc # "none"
                /\ \E m \in tick([Mem EXCEPT !.inExecution = TRUE], l) :
                        Within(m) /\ Store(m)
                /\ frames' = [drew |-> TRUE, afterStop |-> 0,
                             issued |-> drawerIssues(Mem)]
                /\ Render

\* GPUEngine.stop
Stop ==
    /\ callsLeft > 0
    /\ callsLeft' = callsLeft - 1
    /\ Store([Mem EXCEPT !.inExecution = FALSE])
    /\ last' = NoCall
    /\ frames' = [drew |-> FALSE, afterStop |-> 0, issued |-> <<>>]
    /\ UNCHANGED targets

\* the host runs the callback given to requestAnimationFrame
Tick(l) ==
    /\ loops[l].pc = "scheduled"
    /\ ~MicrotaskPending
    /\ Frame(tick(Mem, l))
    /\ UNCHANGED callsLeft

\* the awaited call of the drain loop has settled: next event, or reschedule
DrainNext(l) ==
    /\ loops[l].pc = "await"
    /\ loops[l].ready
    /\ Continue(Drain(Mem, l, loops[l].i + 1))

\* the promise of createProgram resolves
ResolveCreate(t) ==
    /\ t \in DOMAIN tasks
    /\ tasks[t].kind = "create"
    /\ Scheduled(t)
    /\ Continue(createRest(Mem, t))

\* the promise of cloneProgram resolves
ResolveClone(t) ==
    /\ t \in DOMAIN tasks
    /\ tasks[t].kind = "clone"
    /\ Scheduled(t)
    /\ Continue(cloneRest(Mem, t))

\* createCamera goes on after one of its awaits
ResumeCamera(t) ==
    /\ t \in DOMAIN tasks
    /\ \/ /\ tasks[t].kind = "cameraWrite"
          /\ Continue(cameraWriteRest(Mem, t))
       \/ /\ tasks[t].kind = "cameraAdd"
          /\ Continue(cameraAddRest(Mem, t))

NoInput == <<>>
NoOutput == [op |-> "none"]

\* the state after `new GPUEngine(...)`, for a host that uses the entity ids
\* `ids` and makes `calls` calls
Constructed(ids, calls) ==
    /\ isBusy = FALSE
    /\ inExecution = FALSE
    /\ events = <<>>
    /\ idExecMap = [id \in ids |-> NoEntity]
    /\ isPending = [id \in ids |-> 0]
    /\ codeExecMap = [c \in Codes |-> 0]
    /\ refs = <<>>
    /\ execs = <<>>
    /\ rendererZ = 0
    /\ globalBuffers = [b \in BufferIds |-> NoBuffer]
    /\ entities = <<>>
    /\ cameras = [s \in SceneIds |-> <<>>]
    /\ tasks = <<>>
    /\ loops = [l \in Loops |-> NoLoop]
    /\ ran = <<>>
    /\ frames = [drew |-> FALSE, afterStop |-> 0, issued |-> <<>>]
    /\ callsLeft = calls
    /\ last = NoCall
    /\ cvsTexture = NoTexture
    /\ depthTexture = NoTexture
    /\ depthLive = [now |-> 0, peak |-> 0, destroyed |-> FALSE]

\* the canvas of the behaviours in which nothing resizes it
Canvas == [width |-> 1, height |-> 1]

InitWith(ids, calls) ==
    /\ Constructed(ids, calls)
    /\ surface = Canvas
    /\ input = NoInput
    /\ output = NoOutput

Init == InitWith(Ids, MaxCalls)

Next ==
    \/ \E id \in Ids, program \in ValidPrograms : Create(id, program)
    \/ \E id \in Ids : AddToScene(id)
    \/ \E id \in Ids : RemoveFromScene(id)
    \/ \E id \in Ids : FreeEntity(id)
    \/ \E id \in Ids, z \in ZArgs : Update(id, z)
    \/ \E b \in BufferIds : CreateGlobalBuffer(b)
    \/ \E b \in BufferIds, v \in Values, p \in BOOLEAN : WriteGlobalBuffer(b, v, p)
    \/ \E s \in SceneIds, c \in CameraIds, v \in Values : CreateCamera(s, c, v)
    \/ \E s \in SceneIds, c \in CameraIds, v \in Values : UpdateCamera(s, c, v)
    \/ Draw
    \/ Stop
    \/ \E l \in Loops : Tick(l)
    \/ \E l \in Loops : DrainNext(l)
    \/ \E t \in TaskIds : ResolveCreate(t)
    \/ \E t \in TaskIds : ResolveClone(t)
    \/ \E t \in TaskIds : ResumeCamera(t)

Spec == Init /\ [][Next]_vars

\* Registry-only behaviours: the host never calls draw(), so the registry is
\* Idle throughout. It uses more entities, through Entity objects or through
\* the registry itself, and programs that createProgram rejects are among
\* those it creates.
InitRegistry == InitWith(RegistryIds, MaxRegistryCalls)

NextRegistry ==
    \/ \E id \in RegistryIds, program \in RegistryPrograms : EntityCreate(id, program)
    \/ \E id \in RegistryIds : EntityUpdate(id)
    \/ \E id \in RegistryIds, program \in RegistryPrograms : Create(id, program)
    \/ \E id \in RegistryIds : AddToScene(id)
    \/ \E id \in RegistryIds : RemoveFromScene(id)
    \/ \E id \in RegistryIds : FreeEntity(id)
    \/ \E id \in RegistryIds, z \in ZArgs : Update(id, z)
    \/ \E t \in TaskIds : ResolveCreate(t)
    \/ \E t \in TaskIds : ResolveClone(t)

SpecRegistry == InitRegistry /\ [][NextRegistry]_vars

\* Behaviours of a host that creates entities with a texture and puts them
\* into the scene around draw() and stop(): long enough for two queued calls
\* and a call made while the first of them is awaited by the drain.
OrderPrograms == {program \in ValidPrograms : program.groups = "texture"}

InitOrder == InitWith(Ids, MaxOrderCalls)

NextOrder ==
    \/ \E id \in Ids, program \in OrderPrograms : Create(id, program)
    \/ \E id \in Ids : AddToScene(id)
    \/ Draw
    \/ Stop
    \/ \E l \in Loops : Tick(l)
    \/ \E l \in Loops : DrainNext(l)
    \/ \E t \in TaskIds : ResolveCreate(t)
    \/ \E t \in TaskIds : ResolveClone(t)

SpecOrder == InitOrder /\ [][NextOrder]_vars

\* ------------------------------------------- Renderer: vertex buffer helpers
\* enums.js: the component types (Type), the bytes of one component
\* (TypeConstructor[type].BYTES_PER_ELEMENT), the scalar tag of the vertex
\* format (TypeFormat[type]) and the DataView setter (TypeMap[type])
Type == {"u8", "i8", "u16", "i16", "u32", "i32", "f32"}

BYTES_PER_ELEMENT(type) ==
    CASE type \in {"u8", "i8"} -> 1
      [] type \in {"u16", "i16"} -> 2
      [] OTHER -> 4

TypeFormat(type) ==
    CASE type = "u8" -> "uint8"
      [] type = "i8" -> "sint8"
      [] type = "u16" -> "uint16"
      [] type = "i16" -> "sint16"
      [] type = "u32" -> "uint32"
      [] type = "i32" -> "sint32"
      [] OTHER -> "float32"

TypeMap(type) ==
    CASE type = "u8" -> "setUint8"
      [] type = "i8" -> "setInt8"
      [] type = "u16" -> "setUint16"
      [] type = "i16" -> "setInt16"
      [] type = "u32" -> "setUint32"
      [] type = "i32" -> "setInt32"
      [] OTHER -> "setFloat32"

\* the least and the greatest component of a type that the model uses; a
\* 32-bit component stays below 2^31 and an f32 component is held as its
\* IEEE 754 bit pattern
MinOf(type) ==
    CASE type = "i8" -> 0 - 128
      [] type = "i16" -> 0 - 32768
      [] type = "i32" -> 0 - 2147483647
      [] OTHER -> 0

MaxOf(type) ==
    CASE type = "u8" -> 255
      [] type = "i8" -> 127
      [] type = "u16" -> 65535
      [] type = "i16" -> 32767
      [] OTHER -> 2147483647

\* the typed array `new TypeConstructor[type]( values )` of n components,
\* with components near both ends of the type's range
Elements(type, n) ==
    [p \in 1..n |-> IF p % 2 = 1 THEN MaxOf(type) - 3 * (p - 1)
                    ELSE MinOf(type) + 5 * p]

\* the component counts of an attribute or a buffer slot: 1 | 2 | 3 | 4
Sizes == 1..4

\* VertexTransferable: { location, type, size, values }, values holding
\* whole elements of `size` components
Attributes ==
    {[location |-> 0, type |-> type, size |-> size,
      values |-> Elements(type, size * elements)] :
        type \in Type, size \in Sizes, elements \in 0..MaxElements}

VertexDescriptors ==
    UNION {{[j \in 1..n |-> [a[j] EXCEPT !.location = j - 1]] :
                a \in [1..n -> Attributes]} : n \in 0..MaxAttributes}

\* a variant of typeToFormat that lets a 16-bit signed component through;
\* the code does not do this
typeToFormatSigned16(type, size) ==
    IF size \in {1, 3} /\ type \in {"u8", "u16", "i8"}
    THEN [res |-> "TypeError", format |-> ""]
    ELSE IF size = 1 THEN [res |-> "ok", format |-> TypeFormat(type)]
    ELSE [res |-> "ok", format |-> TypeFormat(type) \o "x" \o ToString(size)]

\* Renderer.#typeToFormat
typeToFormat(type, size) ==
    IF size \in {1, 3} /\ type \in {"u8", "u16", "i8", "i16"}
    THEN [res |-> "TypeError", format |-> ""]
    ELSE IF size = 1 THEN [res |-> "ok", format |-> TypeFormat(type)]
    ELSE [res |-> "ok", format |-> TypeFormat(type) \o "x" \o ToString(size)]

\* DataView.prototype.set<Type>( offset, value, littleEndian ): the bytes that
\* the call stores from `offset` on, two's complement for a negative value
setBytes(width, value, littleEndian) ==
    [b \in 1..width |->
        LET place == IF littleEndian THEN b - 1 ELSE width - b
        IN (value \div (256 ^ place)) % 256]

RECURSIVE chainFrom(_, _, _, _, _, _)
\* the loops of #chainArrays from element i, attribute j (counted from 1) and
\* component k on, with the running `offset`: the calls of the DataView
chainFrom(buffers, len, i, j, k, offset) ==
    IF i >= len THEN <<>>
    ELSE IF j > Len(buffers) THEN chainFrom(buffers, len, i + 1, 1, 0, offset)
    ELSE IF k >= buffers[j].size THEN chainFrom(buffers, len, i, j + 1, 0, offset)
    ELSE LET at == k + i * buffers[j].size
             width == BYTES_PER_ELEMENT(buffers[j].type)
         IN <<[method |-> TypeMap(buffers[j].type),
               offset |-> offset,
               \* a read past the end of the typed array gives undefined,
               \* which the setters store as 0 (NaN for setFloat32)
               value |-> IF at + 1 \in DOMAIN buffers[j].values
                         THEN buffers[j].values[at + 1] ELSE 0,
               littleEndian |-> TRUE,
               width |-> width]>>
            \o chainFrom(buffers, len, i, j, k + 1, offset + width)

\* a variant of chainArrays that stores the components big-endian; the code
\* does not do this
chainArraysBigEndian(buffers, bytes) ==
    LET first == buffers[1]
        len == Len(first.values) \div first.size
        calls == chainFrom(buffers, len, 0, 1, 0, 0)
    IN [k \in DOMAIN calls |-> [calls[k] EXCEPT !.littleEndian = FALSE]]

\* Renderer.#chainArrays: the calls of the DataView over the new ArrayBuffer
\* of `bytes` bytes, in the order in which they are made
chainArrays(buffers, bytes) ==
    LET first == buffers[1]
        len == Len(first.values) \div first.size
    IN chainFrom(buffers, len, 0, 1, 0, 0)

\* the ArrayBuffer of `bytes` zero bytes after the calls; byte n of the
\* buffer is element n + 1 of the sequence
ArrayBuffer(bytes, calls) ==
    [n \in 1..bytes |->
        LET hits == {c \in DOMAIN calls :
                        n - 1 \in calls[c].offset..(calls[c].offset + calls[c].width - 1)}
        IN IF hits = {} THEN 0
           ELSE LET c == CHOOSE h \in hits : \A g \in hits : g <= h
                IN setBytes(calls[c].width, calls[c].value,
                            calls[c].littleEndian)[n - calls[c].offset]]

\* a variant of SameLength that compares the byteLength of the values alone;
\* the code does not do this
SameByteLength(a, b) ==
    Len(a.values) * BYTES_PER_ELEMENT(a.type) = Len(b.values) * BYTES_PER_ELEMENT(b.type)

\* (values.byteLength / BYTES_PER_ELEMENT) / size of two attributes are the
\* same number
SameLength(a, b) == Len(a.values) * b.size = Len(b.values) * a.size

RECURSIVE strideAfter(_, _)
\* the variable `stride` of #createVertexBuffer after i turns of its loop
strideAfter(vertexDescriptor, i) ==
    IF i = 0 THEN 0
    ELSE strideAfter(vertexDescriptor, i - 1)
            + vertexDescriptor[i].size * BYTES_PER_ELEMENT(vertexDescriptor[i].type)

NoVertexBuffer ==
    [op |-> "createVertexBuffer", res |-> "ok", created |-> FALSE,
     attributes |-> <<>>, stride |-> 0, size |-> 0, bufferSize |-> 0,
     calls |-> <<>>, buffer |-> <<>>]

\* a variant of createVertexBuffer that gives an attribute the stride after
\* its own components as offset; the code does not do this
createVertexBufferOffsetAfter(vertexDescriptor) ==
    IF vertexDescriptor = <<>> THEN NoVertexBuffer
    ELSE
    LET first == vertexDescriptor[1]
        len == Len(first.values) \div first.size
        thrown(i) == IF ~SameLength(vertexDescriptor[i], first) THEN "RangeError"
                     ELSE typeToFormat(vertexDescriptor[i].type,
                                       vertexDescriptor[i].size).res
        failing == {i \in DOMAIN vertexDescriptor : thrown(i) # "ok"}
        stride == strideAfter(vertexDescriptor, Len(vertexDescriptor))
        size == stride * len
        calls == chainArrays(vertexDescriptor, size)
    IN IF failing # {}
       THEN [NoVertexBuffer EXCEPT
                !.res = thrown(CHOOSE i \in failing : \A k \in failing : i <= k)]
       ELSE [NoVertexBuffer EXCEPT
                !.created = TRUE,
                !.attributes =
                    [i \in DOMAIN vertexDescriptor |->
                        [shaderLocation |-> vertexDescriptor[i].location,
                         offset |-> strideAfter(vertexDescriptor, i),
                         format |-> typeToFormat(vertexDescriptor[i].type,
                                                 vertexDescriptor[i].size).format]],
                !.stride = stride,
                !.size = len,
                !.bufferSize = size,
                !.calls = calls,
                !.buffer = ArrayBuffer(size, calls)]

\* Renderer.#createVertexBuffer: what it returns or throws, the size of the
\* buffer that it creates and the bytes that it writes into it. The first
\* turn of the loop that throws ends the call: a RangeError for a length that
\* is not the first attribute's, else the TypeError of #typeToFormat
createVertexBuffer(vertexDescriptor) ==
    IF vertexDescriptor = <<>> THEN NoVertexBuffer
    ELSE
    LET first == vertexDescriptor[1]
        len == Len(first.values) \div first.size
        thrown(i) == IF ~SameLength(vertexDescriptor[i], first) THEN "RangeError"
                     ELSE typeToFormat(vertexDescriptor[i].type,
                                       vertexDescriptor[i].size).res
        failing == {i \in DOMAIN vertexDescriptor : thrown(i) # "ok"}
        stride == strideAfter(vertexDescriptor, Len(vertexDescriptor))
        size == stride * len
        calls == chainArrays(vertexDescriptor, size)
    IN IF failing # {}
       THEN [NoVertexBuffer EXCEPT
                !.res = thrown(CHOOSE i \in failing : \A k \in failing : i <= k)]
       ELSE [NoVertexBuffer EXCEPT
                !.created = TRUE,
                !.attributes =
                    [i \in DOMAIN vertexDescriptor |->
                        [shaderLocation |-> vertexDescriptor[i].location,
                         offset |-> strideAfter(vertexDescriptor, i - 1),
                         format |-> typeToFormat(vertexDescriptor[i].type,
                                                 vertexDescriptor[i].size).format]],
                !.stride = stride,
                !.size = len,
                !.bufferSize = size,
                !.calls = calls,
                !.buffer = ArrayBuffer(size, calls)]

\* the engine is left as it was constructed while a helper runs on its own
engine ==
    <<isBusy, inExecution, events, idExecMap, isPending, codeExecMap, refs,
      execs, rendererZ, globalBuffers, entities, cameras, tasks, loops, ran,
      frames, callsLeft, last>>

\* #createVertexBuffer is called with the vertex descriptor
CreateVertexBuffer ==
    /\ output = NoOutput
    /\ output' = createVertexBuffer(input)
    /\ UNCHANGED <<engine, targets, input>>

\* #typeToFormat is called with a component type and a component count
TypeToFormat(type, size) ==
    /\ output = NoOutput
    /\ output' = [op |-> "typeToFormat", type |-> type, size |-> size,
                  returned |-> typeToFormat(type, size)]
    /\ UNCHANGED <<engine, targets, input>>

InitVertex ==
    /\ Constructed(Ids, 0)
    /\ surface = Canvas
    /\ input \in VertexDescriptors
    /\ output = NoOutput

NextVertex ==
    \/ CreateVertexBuffer
    \/ \E type \in Type, size \in Sizes : TypeToFormat(type, size)

SpecVertex == InitVertex /\ [][NextVertex]_vars

\* -------------------------------------------- Renderer: index buffer helper
MAX_U16 == 65535

\* the vertex element counts and the index lists that #createIndexBuffer is
\* given
IndexInputs ==
    [size : (0..MaxVertices) \cup {MAX_U16 - 1, MAX_U16, MAX_U16 + 1},
     indices : {<<>>, <<0, 1, 2>>, <<0, 1, 2, 2, 1, 3>>, <<0, 65536, 70000>>}]

\* TypedArray.prototype.set on a Uint16Array or Uint32Array: every index is
\* stored modulo 2^16 or 2^32 (the indices of the model are below 2^31)
rangeSet(indices, bytesPerElement) ==
    [i \in DOMAIN indices |->
        IF bytesPerElement = 2 THEN indices[i] % 65536 ELSE indices[i]]

\* a variant of createIndexBuffer that takes 32-bit indices from MAX_U16
\* vertices on; the code does not do this
createIndexBufferFromMax(indices, size) ==
    LET used == IF Len(indices) <= 0 THEN [i \in 1..size |-> i - 1] ELSE indices
        wide == size >= MAX_U16
        bytesPerElement == IF wide THEN 4 ELSE 2
    IN [op |-> "createIndexBuffer",
        indices |-> used,
        bufferSize |-> Len(used) * bytesPerElement,
        range |-> rangeSet(used, bytesPerElement),
        vertexCount |-> Len(used),
        type |-> IF wide THEN "uint32" ELSE "uint16"]

\* Renderer.#createIndexBuffer: the caller's array after the call, the size
\* of the buffer, the typed array written into it and the returned fields
createIndexBuffer(indices, size) ==
    LET used == IF Len(indices) <= 0 THEN [i \in 1..size |-> i - 1] ELSE indices
        wide == size > MAX_U16
        bytesPerElement == IF wide THEN 4 ELSE 2
    IN [op |-> "createIndexBuffer",
        indices |-> used,
        bufferSize |-> Len(used) * bytesPerElement,
        range |-> rangeSet(used, bytesPerElement),
        vertexCount |-> Len(used),
        type |-> IF wide THEN "uint32" ELSE "uint16"]

\* #createIndexBuffer is called with the index list and the element count
CreateIndexBuffer ==
    /\ output = NoOutput
    /\ output' = createIndexBuffer(input.indices, input.size)
    /\ UNCHANGED <<engine, targets, input>>

InitIndex ==
    /\ Constructed(Ids, 0)
    /\ surface = Canvas
    /\ input \in IndexInputs
    /\ output = NoOutput

NextIndex == CreateIndexBuffer

SpecIndex == InitIndex /\ [][NextIndex]_vars

\* ------------------------------------------- Renderer: bind group helpers
\* GPUBinding.resource: a buffer slot has `type` and `size` and may have
\* `global` ({ id, byteOffset } or { isCamera: true }), a texture slot has
\* `img`, `width` and `height`, and a sampler slot has none of them. An absent
\* key is "" or Undefined
NoGlobal == [set |-> FALSE, id |-> "", isCamera |-> FALSE, byteOffset |-> Undefined]
SamplerSlot ==
    [type |-> "", size |-> Undefined, global |-> NoGlobal, img |-> "",
     width |-> Undefined, height |-> Undefined]
TextureSlot == [SamplerSlot EXCEPT !.img = "a.png", !.width = 2, !.height = 2]
ValueSlot(type, size) == [SamplerSlot EXCEPT !.type = type, !.size = size]
NamedSlot(type, size, id, byteOffset) ==
    [ValueSlot(type, size) EXCEPT
        !.global = [set |-> TRUE, id |-> id, isCamera |-> FALSE,
                    byteOffset |-> byteOffset]]
CameraSlot(type, size) ==
    [ValueSlot(type, size) EXCEPT !.global = [NoGlobal EXCEPT !.set = TRUE,
                                                               !.isCamera = TRUE]]

Slots ==
    {ValueSlot("f32", 4), ValueSlot("f32", 16), NamedSlot("f32", 4, "m1", 0),
     CameraSlot("f32", 16), TextureSlot, SamplerSlot}

BindGroups == UNION {[1..n -> Slots] : n \in 0..MaxBindings}

\* GPUProgram.groups
Groups == UNION {[1..n -> BindGroups] : n \in 0..MaxGroups}

\* Renderer.#isTypeOfBuffer and #isTypeOfTexture
isTypeOfBuffer(binding) == binding.type # ""
isTypeOfTexture(binding) == binding.img # ""

\* Renderer.#getBufferSize
getBufferSize(binding) == BYTES_PER_ELEMENT(binding.type) * binding.size

\* Renderer.#getBufferLocalSize: `!global || !global.id ? size : 0`
getBufferLocalSize(binding) ==
    IF ~binding.global.set \/ binding.global.id = ""
    THEN getBufferSize(binding) ELSE 0

RECURSIVE localSizeFrom(_, _, _)
\* what the loops of #createUniformBuffer add to `size` from group i and
\* binding j (counted from 1) on
localSizeFrom(groups, i, j) ==
    IF i > Len(groups) THEN 0
    ELSE IF j > Len(groups[i]) THEN localSizeFrom(groups, i + 1, 1)
    ELSE (IF isTypeOfBuffer(groups[i][j]) THEN getBufferLocalSize(groups[i][j])
          ELSE 0)
         + localSizeFrom(groups, i, j + 1)

\* Renderer.#createUniformBuffer: the size of the buffer, or Undefined when
\* there is no group and no buffer is created
createUniformBuffer(groups) ==
    IF Len(groups) <= 0 THEN Undefined ELSE localSizeFrom(groups, 1, 1)

\* UniformDescriptor with all its keys undefined, as pushed for a sampler
NoUniform ==
    [offset |-> Undefined, size |-> Undefined, type |-> "",
     width |-> Undefined, height |-> Undefined, texture |-> Undefined]

RECURSIVE bindFrom(_, _, _, _)
\* the loops of #createBindGroup from group i and binding j (counted from 1)
\* on; acc holds `uniforms`, the entries of every group, the running
\* `offset`, the textures created so far and the error thrown
bindFrom(groups, i, j, acc) ==
    IF i > Len(groups) THEN acc
    ELSE IF j > Len(groups[i]) THEN bindFrom(groups, i + 1, 1, acc)
    ELSE
    LET binding == groups[i][j]
        pushed == [acc EXCEPT !.uniforms = Append(@, <<>>)]
        size == IF isTypeOfBuffer(binding) THEN getBufferSize(binding) ELSE Undefined
        \* the entry of the bind group and the descriptor pushed to uniforms[i]
        \* (none for a global slot)
        entry ==
            IF isTypeOfBuffer(binding) /\ binding.global.set /\ binding.global.isCamera
            THEN [buffer |-> DEFAULT_CAMERA_BUFFER_ID, offset |-> 0, size |-> size]
            ELSE IF isTypeOfBuffer(binding) /\ binding.global.set
            THEN [buffer |-> binding.global.id, offset |-> binding.global.byteOffset,
                  size |-> size]
            ELSE IF isTypeOfBuffer(binding)
            THEN [buffer |-> "uniformBuffer", offset |-> acc.offset, size |-> size]
            ELSE IF isTypeOfTexture(binding)
            THEN [buffer |-> "texture", offset |-> Undefined, size |-> Undefined]
            ELSE [buffer |-> "sampler", offset |-> Undefined, size |-> Undefined]
        uniform ==
            IF isTypeOfBuffer(binding)
            THEN [NoUniform EXCEPT !.offset = acc.offset, !.size = size,
                                   !.type = binding.type]
            ELSE IF isTypeOfTexture(binding)
            THEN [NoUniform EXCEPT !.width = binding.width, !.height = binding.height,
                                   !.texture = acc.textures + 1]
            ELSE NoUniform
        bound == [pushed EXCEPT !.entries[i] = Append(@, entry)]
    IN IF isTypeOfBuffer(binding) /\ binding.global.set
       THEN bindFrom(groups, i, j + 1, bound)
       \* uniforms[i] is undefined when fewer than i + 1 arrays were pushed
       ELSE IF i > Len(pushed.uniforms)
       THEN [pushed EXCEPT !.res = "TypeError"]
       ELSE bindFrom(groups, i, j + 1,
                [bound EXCEPT
                    !.uniforms[i] = Append(@, uniform),
                    !.offset = IF isTypeOfBuffer(binding) THEN @ + size ELSE @,
                    !.textures = IF isTypeOfTexture(binding) THEN @ + 1 ELSE @])

\* Renderer.#createBindGroup, with images that load
createBindGroup(groups) ==
    bindFrom(groups, 1, 1,
             [uniforms |-> <<>>, entries |-> [i \in DOMAIN groups |-> <<>>],
              offset |-> 0, textures |-> 0, res |-> "ok"])

\* what updateBinding does to the GPU
NoGpuCall == [method |-> "none", offset |-> Undefined, type |-> "", texture |-> Undefined]

\* the closure updateBinding( group, binding, resource ) of createProgram over
\* `uniforms`; group and binding count from 0, resource is a string or an
\* Array
updateBindingOn(uniforms, group, binding, resource) ==
    \* uniforms[ group ] is undefined: reading [ binding ] of it throws
    IF group + 1 \notin DOMAIN uniforms
    THEN [res |-> "TypeError", call |-> NoGpuCall]
    \* uniforms[ group ][ binding ] is undefined: `in` throws
    ELSE IF binding + 1 \notin DOMAIN uniforms[group + 1]
    THEN [res |-> "TypeError", call |-> NoGpuCall]
    ELSE
    LET uniform == uniforms[group + 1][binding + 1] IN
    \* every descriptor has the keys `width` and `type`, so `in` is true
    IF resource = "string"
    THEN [res |-> IF uniform.texture = Undefined THEN "TypeError" ELSE "ok",
          call |-> [NoGpuCall EXCEPT !.method = "copyExternalImageToTexture",
                                     !.texture = uniform.texture]]
    \* TypeConstructor[ undefined ] is not a constructor
    ELSE IF uniform.type = ""
    THEN [res |-> "TypeError", call |-> NoGpuCall]
    ELSE [res |-> "ok",
          call |-> [NoGpuCall EXCEPT !.method = "writeBuffer",
                                     !.offset = uniform.offset,
                                     !.type = uniform.type]]

Resources == {"string", "Array"}

\* the part of Renderer.createProgram that deals with program.groups
CreateProgram ==
    /\ output = NoOutput
    /\ output' = [op |-> "createProgram",
                  uniformBuffer |-> createUniformBuffer(input),
                  bound |-> createBindGroup(input)]
    /\ UNCHANGED <<engine, targets, input>>

\* updateBinding of the executable that createProgram returned
UpdateBinding(group, binding, resource) ==
    /\ output.op = "createProgram"
    /\ output.bound.res = "ok"
    /\ output' = [op |-> "updateBinding",
                  group |-> group, binding |-> binding, resource |-> resource,
                  bound |-> output.bound,
                  returned |-> updateBindingOn(output.bound.uniforms, group,
                                              binding, resource)]
    /\ UNCHANGED <<engine, targets, input>>

InitBindings ==
    /\ Constructed(Ids, 0)
    /\ surface = Canvas
    /\ input \in Groups
    /\ output = NoOutput

NextBindings ==
    \/ CreateProgram
    \/ \E group \in 0..(MaxGroups - 1), binding \in 0..(MaxBindings - 1),
          resource \in Resources : UpdateBinding(group, binding, resource)

SpecBindings == InitBindings /\ [][NextBindings]_vars

\* ------------------------------------------------- canvas that is resized
Surfaces == [width : 1..MaxSurface, height : 1..MaxSurface]

\* the host gives the canvas another size; the next getCurrentTexture
\* (drawer.js 118) returns a texture of that size
Resize(size) ==
    /\ size # surface
    /\ surface' = size
    /\ Store(Mem)
    /\ frames' = [frames EXCEPT !.drew = FALSE, !.issued = <<>>]
    /\ last' = NoCall
    /\ UNCHANGED <<callsLeft, cvsTexture, depthTexture, depthLive>>

InitDepth ==
    /\ Constructed(Ids, MaxDepthCalls)
    /\ surface \in Surfaces
    /\ input = NoInput
    /\ output = NoOutput

NextDepth ==
    \/ Draw
    \/ Stop
    \/ \E l \in Loops : Tick(l)
    \/ \E size \in Surfaces : Resize(size)

SpecDepth == InitDepth /\ [][NextDepth]_vars

\* ------------------------------------------------ GPUEngine: the shader id
\* GPUCompilableProgram as far as the cache key reads it; an absent string
\* key is ""
KeyAttributes ==
    [location : 0..MaxLocation, type : {"u8", "f32"}, size : {1, 2},
     values : {<<1, 2>>, <<1, 3>>}]

KeyVertexDescriptors ==
    UNION {[1..n -> KeyAttributes] : n \in 0..MaxKeyAttributes}

KeyPrograms ==
    [code : {"s1", "s2"}, cullMode : {"", "front"}, topology : {"", "line-list"},
     fragmentEntryPoint : {"", "fs"}, vertexEntryPoint : {"", "vs"},
     vertexDescriptor : KeyVertexDescriptors]

\* `a || b` on strings: the empty string is falsy
OrElse(a, b) == IF a = "" THEN b ELSE a

\* one component stored in a `new TypeConstructor[type]( values )`: an integer
\* type keeps the low bits; the components of the model are small whole
\* numbers, which a 32-bit or float component holds unchanged
toComponent(type, v) ==
    CASE type = "u8" -> v % 256
      [] type = "i8" -> ((v + 128) % 256) - 128
      [] type = "u16" -> v % 65536
      [] type = "i16" -> ((v + 32768) % 65536) - 32768
      [] OTHER -> v

TypedArray(type, values) == [i \in DOMAIN values |-> toComponent(type, values[i])]

\* TypedArray.prototype.join(',')
RECURSIVE join(_)
join(array) ==
    IF array = <<>> THEN ""
    ELSE IF Len(array) = 1 THEN ToString(array[1])
    ELSE ToString(array[1]) \o "," \o join(Tail(array))

\* map.reduce( (p,v) => p + '/' + v ) from location l on: the holes of the
\* sparse array `map` are skipped
RECURSIVE reduceFrom(_, _, _)
reduceFrom(map, l, acc) ==
    IF l > MaxLocation THEN acc
    ELSE IF ~map[l].set THEN reduceFrom(map, l + 1, acc)
    ELSE reduceFrom(map, l + 1,
            [set |-> TRUE,
             text |-> IF acc.set THEN acc.text \o "/" \o map[l].text ELSE map[l].text])

\* GPUEngine.#attribToString: map[buff.location] is the joined typed array of
\* the last attribute with that location
attribToString(attrib) ==
    LET at(l) == {i \in DOMAIN attrib : attrib[i].location = l}
        latest(l) == CHOOSE i \in at(l) : \A j \in at(l) : j <= i
        map == [l \in 0..MaxLocation |->
                    IF at(l) = {} THEN [set |-> FALSE, text |-> ""]
                    ELSE [set |-> TRUE,
                          text |-> join(TypedArray(attrib[latest(l)].type,
                                                   attrib[latest(l)].values))]]
    IN reduceFrom(map, 0, [set |-> FALSE, text |-> ""]).text

\* GPUEngine.#getShaderId
getShaderIdString(program) ==
    program.code
        \o OrElse(program.cullMode, "back")
        \o OrElse(program.topology, "triangle-list")
        \o OrElse(program.fragmentEntryPoint, "fragment_main")
        \o OrElse(program.vertexEntryPoint, "vertex_main")

\* the key of #codeExecMap that create computes for a program
shaderIdOf(program) ==
    getShaderIdString(program) \o attribToString(program.vertexDescriptor)

\* create computes the key of two programs
ShaderIds ==
    /\ output = NoOutput
    /\ output' = [op |-> "shaderId", first |-> shaderIdOf(input.first),
                  second |-> shaderIdOf(input.second)]
    /\ UNCHANGED <<engine, targets, input>>

InitShaderId ==
    /\ Constructed(Ids, 0)
    /\ surface = Canvas
    /\ input \in [first : KeyPrograms, second : KeyPrograms]
    /\ output = NoOutput

NextShaderId == ShaderIds

SpecShaderId == InitShaderId /\ [][NextShaderId]_vars

\* ----------------------------------- Renderer: global slots of a bind group
\* programs whose slots name the global buffers of the host
GlobalSlots ==
    {ValueSlot("f32", 4), NamedSlot("f32", 4, "light", 0), CameraSlot("f32", 16)}

GlobalGroups ==
    UNION {[1..n -> UNION {[1..k -> GlobalSlots] : k \in 0..MaxBindings}] :
                n \in 0..MaxGroups}

\* GPUDevice.createBindGroup on the entries of one group. The resource of a
\* buffer entry is the plain object { size, buffer, offset }; for a global
\* slot `buffer` is `this.#globalBuffers.get( id )`, which is undefined when
\* the Map has no such key, and the call then throws a TypeError: `buffer` is
\* a required member of GPUBufferBinding
deviceCreateBindGroupUnchecked(entries, buffers) == "ok"
deviceCreateBindGroup(entries, buffers) ==
    IF \E k \in DOMAIN entries :
          entries[k].buffer \in DOMAIN buffers /\ buffers[entries[k].buffer] = NoBuffer
    THEN "TypeError" ELSE "ok"

\* Renderer.#createBindGroup of a renderer whose global buffers are `buffers`
createBindGroupIn(groups, buffers) ==
    LET bound == createBindGroup(groups) IN
    IF bound.res # "ok" THEN bound
    ELSE IF \E i \in DOMAIN bound.entries :
                deviceCreateBindGroup(bound.entries[i], buffers) # "ok"
    THEN [bound EXCEPT !.res = "TypeError"]
    ELSE bound

\* createProgram or cloneProgram reaches `await this.#createBindGroup(...)`
CreateBindGroup ==
    /\ output = NoOutput
    /\ output' = [op |-> "createBindGroup", buffers |-> globalBuffers,
                  bound |-> createBindGroupIn(input, globalBuffers)]
    /\ UNCHANGED <<engine, targets, input>>

InitGlobalSlots ==
    /\ Constructed(Ids, MaxSlotCalls)
    /\ surface = Canvas
    /\ input \in GlobalGroups
    /\ output = NoOutput

NextGlobalSlots ==
    \/ \E b \in BufferIds : CreateGlobalBuffer(b)
    \/ \E s \in SceneIds, c \in CameraIds, v \in Values : CreateCamera(s, c, v)
    \/ \E t \in TaskIds : ResumeCamera(t)
    \/ CreateBindGroup

SpecGlobalSlots == InitGlobalSlots /\ [][NextGlobalSlots]_vars

\* ------------------------------------------------- the device's error scopes
\* Every helper calls pushErrorScope for 'out-of-memory', 'validation' and
\* 'internal' and then popErrorScope once, unless it returns or throws before.
\* An operation is the sequence of these calls that it makes on the device.
Push3 == <<"push", "push", "push">>
Pop == <<"pop">>

\* Renderer.#createUniformBuffer: returns before the pop when there is no group
createUniformBufferScopes(noGroups) == Push3 \o (IF noGroups THEN <<>> ELSE Pop)

\* Renderer.#createIndexBuffer
createIndexBufferScopes == Push3 \o Pop

\* Renderer.#createVertexBuffer: returns before the pop for an empty descriptor
\* and throws before it for values of the wrong length
createVertexBufferScopes(attribs) == Push3 \o (IF attribs = "valid" THEN Pop ELSE <<>>)

\* Renderer.createProgram; #createGroupLayout and #createBindGroup open no
\* scope, and a throw of #createVertexBuffer ends the call
createProgramScopes(noGroups, attribs) ==
    Push3 \o createUniformBufferScopes(noGroups) \o createVertexBufferScopes(attribs)
        \o (IF attribs = "mismatch" THEN <<>> ELSE createIndexBufferScopes \o Pop)

\* Renderer.cloneProgram
cloneProgramScopes(noGroups) == Push3 \o createUniformBufferScopes(noGroups) \o Pop

\* the closure updateBinding: reading uniforms[ group ][ binding ] of a group
\* that is not there throws after the pushes
updateBindingScopes(throws) == Push3 \o (IF throws THEN <<>> ELSE Pop)

\* Renderer.createGlobalBuffer and writeGlobalBuffer: the test of the id
\* throws before the pushes
globalBufferScopes(throws) == IF throws THEN <<>> ELSE Push3 \o Pop

\* the getter Drawer.depthTexture
depthTextureScopes == Push3 \o Pop

\* Drawer.#createCommandEncoder reads this.depthTexture between its pushes and
\* its pop
createCommandEncoderScopes == Push3 \o depthTextureScopes \o Pop

\* Drawer.#submitPipeline
submitPipelineScopes == Push3 \o Pop

RECURSIVE perCamera(_)
perCamera(n) == IF n = 0 THEN <<>> ELSE globalBufferScopes(FALSE) \o perCamera(n - 1)

\* Drawer.draw with n active cameras
drawScopes(n) == createCommandEncoderScopes \o perCamera(n) \o submitPipelineScopes

\* an operation and what of its arguments and of the state decides its path
NoOperation == [name |-> "", noGroups |-> FALSE, attribs |-> "valid", throws |-> FALSE,
                cameras |-> 0]
VertexKinds == {"valid", "empty", "mismatch"}
ScopeOperations ==
    {[NoOperation EXCEPT !.name = "createUniformBuffer", !.noGroups = g] : g \in BOOLEAN}
    \cup {[NoOperation EXCEPT !.name = "createIndexBuffer"],
          [NoOperation EXCEPT !.name = "depthTexture"]}
    \cup {[NoOperation EXCEPT !.name = "createVertexBuffer", !.attribs = a] :
                a \in VertexKinds}
    \cup {[NoOperation EXCEPT !.name = "createProgram", !.noGroups = g, !.attribs = a] :
                g \in BOOLEAN, a \in VertexKinds}
    \cup {[NoOperation EXCEPT !.name = "cloneProgram", !.noGroups = g] : g \in BOOLEAN}
    \cup {[NoOperation EXCEPT !.name = n, !.throws = t] :
                n \in {"updateBinding", "createGlobalBuffer", "writeGlobalBuffer"},
                t \in BOOLEAN}
    \cup {[NoOperation EXCEPT !.name = "draw", !.cameras = n] : n \in 0..MaxScopeCameras}

scopesOf(operation) ==
    CASE operation.name = "createUniformBuffer" -> createUniformBufferScopes(operation.noGroups)
      [] operation.name = "createIndexBuffer" -> createIndexBufferScopes
      [] operation.name = "createVertexBuffer" -> createVertexBufferScopes(operation.attribs)
      [] operation.name = "createProgram" ->
            createProgramScopes(operation.noGroups, operation.attribs)
      [] operation.name = "cloneProgram" -> cloneProgramScopes(operation.noGroups)
      [] operation.name = "updateBinding" -> updateBindingScopes(operation.throws)
      [] operation.name \in {"createGlobalBuffer", "writeGlobalBuffer"} ->
            globalBufferScopes(operation.throws)
      [] operation.name = "depthTexture" -> depthTextureScopes
      [] OTHER -> drawScopes(operation.cameras)

\* GPUDevice.pushErrorScope and popErrorScope on a stack of the given depth;
\* popErrorScope on an empty stack rejects and changes nothing
RECURSIVE depthAfter(_, _)
depthAfter(calls, depth) ==
    IF calls = <<>> THEN depth
    ELSE depthAfter(Tail(calls),
            IF Head(calls) = "push" THEN depth + 1
            ELSE IF depth > 0 THEN depth - 1 ELSE depth)

\* the depth of the error-scope stack of the device, 0 after requestDevice
ScopeDepth == IF output = NoOutput THEN 0 ELSE output.after
ScopeCount == IF output = NoOutput THEN 0 ELSE output.count

\* one operation of the renderer or the drawer runs on the device
Operate(operation) ==
    /\ ScopeCount < MaxScopeOperations
    /\ output' = [op |-> "scopes", operation |-> operation, count |-> ScopeCount + 1,
                  before |-> ScopeDepth,
                  after |-> depthAfter(scopesOf(operation), ScopeDepth)]
    /\ UNCHANGED <<engine, targets, input>>

InitScopes ==
    /\ Constructed(Ids, 0)
    /\ surface = Canvas
    /\ input = NoInput
    /\ output = NoOutput

NextScopes == \E operation \in ScopeOperations : Operate(operation)

SpecScopes == InitScopes /\ [][NextScopes]_vars

\* ------------------------------------------------------------------ claims
\* the z key of every executable
ZKeys == [e \in DOMAIN execs |-> execs[e].z]
\* what a deferred call must leave alone
Tables == <<idExecMap, codeExecMap, refs, entities, ZKeys, globalBuffers, cameras>>
\* the call is recorded at the tail of the pending queue and nothing else happens
Deferred(method, args) ==
    /\ events' = Append(events, [method |-> method, args |-> args])
    /\ UNCHANGED Tables

\* the calls of C1 other than writeGlobalBuffer
DeferredWhileBusy ==
    /\ \A id \in Ids, program \in Programs :
          Create(id, program) => Deferred("create", ProgramArgs(id, program))
    /\ \A id \in Ids : AddToScene(id) => Deferred("addToScene", IdArgs(id))
    /\ \A id \in Ids : RemoveFromScene(id) => Deferred("removeFromScene", IdArgs(id))
    /\ \A id \in Ids : FreeEntity(id) => Deferred("freeEntity", IdArgs(id))
    /\ \A id \in Ids, z \in ZArgs : Update(id, z) => Deferred("update", ZArgsOf(id, z))
    /\ \A b \in BufferIds :
          CreateGlobalBuffer(b) => Deferred("createGlobalBuffer", BufferArgs(b, ""))
    /\ \A s \in SceneIds, c \in CameraIds, v \in Values :
          /\ CreateCamera(s, c, v) => Deferred("createCamera", CameraArgs(s, c, v))
          /\ UpdateCamera(s, c, v) => Deferred("updateCamera", CameraArgs(s, c, v))

\* C1 (as stated): while the registry is Busy, a call to any of the nine
\* mutating methods appends exactly one (method, arguments) record to the tail
\* of the pending queue and changes none of the tables.
C1_DeferredAnyCall ==
    [][isBusy =>
        /\ DeferredWhileBusy
        /\ \A b \in BufferIds, v \in Values, p \in BOOLEAN :
              WriteGlobalBuffer(b, v, p) => Deferred("writeGlobalBuffer", BufferArgs(b, v))]_vars

\* C1 (amended): the same, for writeGlobalBuffer only when it is called
\* without the priority flag; a priority write is not queued.
C1_DeferredUnlessPriority ==
    [][isBusy =>
        /\ DeferredWhileBusy
        /\ \A b \in BufferIds, v \in Values :
              /\ WriteGlobalBuffer(b, v, FALSE) => Deferred("writeGlobalBuffer", BufferArgs(b, v))
              /\ WriteGlobalBuffer(b, v, TRUE) => events' = events]_vars

\* C1 witness: the registry is Busy and calls of two methods are in the queue
C1_Witness ==
    /\ isBusy
    /\ Len(events) = 2
    /\ events[1].method = "create"
    /\ events[2].method = "writeGlobalBuffer"

\* C2: deferred calls are executed in the order in which they were issued, and
\* no frame is drawn while a deferred call has not been executed yet.
C2_DeferredBeforeNextFrame ==
    [][/\ frames'.drew => \A i \in DOMAIN events : ran[i] >= 1
       /\ \A i, j \in DOMAIN events' : i < j => ran'[i] >= ran'[j]]_vars

\* C3: a deferred call is executed exactly once, and the pending queue is
\* empty when the next tick is scheduled.
C3_DrainedOnce ==
    /\ \A i \in DOMAIN events : ran[i] <= 1
    /\ \A l \in Loops : loops[l].pc = "scheduled" => events = <<>>

\* C4: no step taken while the registry is Busy changes the entity table, the
\* shared-program table, the draw list, a z key or the camera table.
C4_NoMutationWhileBusy ==
    [][isBusy /\ isBusy' =>
        UNCHANGED <<idExecMap, codeExecMap, entities, ZKeys, cameras>>]_vars

\* C5: the registry is Idle after every tick, also after the tick that
\* observes stop().
C5_IdleAfterTick == [][frames'.drew => ~isBusy']_vars

\* the entity records whose shaderId is s
Referencers(s) == {id \in Ids : idExecMap[id].shaderId = s}

\* C6: the reference count stored for a shaderId is the number of entity
\* records with that shaderId.
C6_CountIsReferencers ==
    \A s \in Codes :
        codeExecMap[s] # 0 => refs[codeExecMap[s]].count = Cardinality(Referencers(s))

\* C7: the shaderId of every entity record is a key of the shared-program table.
C7_ShaderIdRegistered ==
    \A id \in Ids : idExecMap[id] # NoEntity => codeExecMap[idExecMap[id].shaderId] # 0

\* the compiled pipeline/vertex/index sets of shaderId s that are not destroyed
LiveSets(s) ==
    {e \in DOMAIN execs :
        /\ execs[e].built
        /\ execs[e].pipeline = e
        /\ execs[e].shaderId = s
        /\ execs[e].destroyedVertex = 0}

\* C8: a shaderId has at most one compiled set that is not destroyed.
C8_OneSetPerShaderId == \A s \in Codes : Cardinality(LiveSets(s)) <= 1

\* C9: shared buffers and textures are destroyed at most once, and no
\* registered entity refers to a destroyed vertex/index buffer.
C9_SharedDestroyedOnce ==
    /\ \A e \in DOMAIN execs :
          execs[e].destroyedVertex <= 1 /\ execs[e].destroyedTexture <= 1
    /\ \A id \in Ids :
          idExecMap[id] # NoEntity =>
              execs[execs[idExecMap[id].executable].pipeline].destroyedVertex = 0

\* C10: the uniform buffer of a registered entity is not destroyed (freeEntity
\* destroys only the uniform buffer of the entity it frees).
C10_OwnUniformOnly ==
    \A id \in Ids :
        LET b == execs[idExecMap[id].executable].uniformBuffer IN
        idExecMap[id] # NoEntity /\ b # 0 => execs[b].destroyedUniform = 0

\* C11: when the create that found a shared entry for its shaderId registers
\* its entity, the entity's executable carries the pipeline and the
\* vertex/index buffers of that entry, and its uniform buffer and bind groups
\* are those of no other executable.
C11_CloneSharesPipelineOnly ==
    [][\A t \in TaskIds :
        ResolveClone(t) =>
            LET task == tasks[t]
                e == idExecMap'[task.id].executable
                shared == refs[task.ref].executable
            IN /\ e = task.executable
               /\ execs'[e].built
               /\ execs'[e].pipeline = execs[shared].pipeline
               /\ \A other \in DOMAIN execs' \ {e} :
                     /\ execs'[e].bindGroups # execs'[other].bindGroups
                     /\ execs'[e].uniformBuffer # 0 =>
                            execs'[e].uniformBuffer # execs'[other].uniformBuffer]_vars

\* C11 witness: two entities are registered, the second with a clone of the
\* first one's program that has a uniform buffer
C11_Witness ==
    \E id, other \in DOMAIN idExecMap :
        /\ id # other
        /\ idExecMap[id] # NoEntity
        /\ idExecMap[other] # NoEntity
        /\ execs[idExecMap[id].executable].pipeline = idExecMap[other].executable
        /\ execs[idExecMap[id].executable].uniformBuffer # 0
        /\ execs[idExecMap[other].executable].uniformBuffer # 0

\* the create of id is compiling: its promise is in #isPending and not settled
Compiling(id) == isPending[id] # 0 /\ tasks[isPending[id]].kind = "create"

\* the call does not throw: it is suspended on the promise of the create of
\* id, and nothing else has happened
Waits(id, method, args) ==
    /\ last' = NoCall
    /\ tasks' = [tasks EXCEPT ![isPending[id]].waiters =
                    Append(@, [method |-> method, args |-> args, owner |-> 0])]
    /\ UNCHANGED Tables

\* how often the executable e is in the draw list
Occurrences(list, e) == Cardinality({i \in DOMAIN list : list[i] = e})

\* what the call w that waited alone for the create of task makes of the
\* entity that the create registers
ActsOnRegistered(task, w) ==
    LET e == task.executable
        shaderId == getShaderId(task.program)
    IN /\ w.args.id = task.id
       /\ w.method = "addToScene" =>
              /\ idExecMap'[task.id].executable = e
              /\ Occurrences(entities', e) = Occurrences(entities, e) + 1
       /\ w.method = "removeFromScene" =>
              /\ idExecMap'[task.id].executable = e
              /\ Occurrences(entities', e) = 0
       /\ w.method = "update" =>
              /\ idExecMap'[task.id].executable = e
              /\ execs'[e].z = w.args.z
       /\ w.method = "freeEntity" =>
              /\ Len(refs') = Len(refs) + 1
              /\ refs'[Len(refs')] = [executable |-> e, count |-> 0]
              /\ Occurrences(entities', e) = 0

\* C12: addToScene, removeFromScene, update and freeEntity called (while Idle)
\* for an id that is not registered and whose create is compiling do not
\* throw: they wait for the promise of that create; and when the create
\* registers its entity, the call that waited acts on that entity.
C12_WaitsForPendingCreate ==
    [][/\ \A id \in DOMAIN idExecMap :
            ~isBusy /\ ~has(Mem, id) /\ Compiling(id) =>
                /\ AddToScene(id) => Waits(id, "addToScene", IdArgs(id))
                /\ RemoveFromScene(id) => Waits(id, "removeFromScene", IdArgs(id))
                /\ FreeEntity(id) => Waits(id, "freeEntity", IdArgs(id))
                /\ \A z \in ZArgs : Update(id, z) => Waits(id, "update", ZArgsOf(id, z))
       /\ \A t \in TaskIds :
            ResolveCreate(t) /\ tasks[t].program.attribs = "valid"
                             /\ Len(tasks[t].waiters) = 1 =>
                ActsOnRegistered(tasks[t], tasks[t].waiters[1])]_vars

\* C12 witness: a create is compiling and two calls for its id wait for it
C12_Witness ==
    \E id \in DOMAIN idExecMap :
        /\ Compiling(id)
        /\ ~has(Mem, id)
        /\ Len(tasks[isPending[id]].waiters) = 2
        /\ tasks[isPending[id]].waiters[1].method = "update"
        /\ tasks[isPending[id]].waiters[2].method = "addToScene"

\* C13: create (called while Idle) with an id that is in the entity table
\* throws and leaves the entity table, the shared-program table and every
\* reference count as they were.
C13_DuplicateIdRejected ==
    [][\A id \in DOMAIN idExecMap, program \in Programs :
        ~isBusy /\ has(Mem, id) /\ Create(id, program) =>
            /\ last' = [method |-> "create", res |-> "throw"]
            /\ UNCHANGED <<idExecMap, codeExecMap, refs>>]_vars

\* C13 witness: a create has just thrown with two entities registered under
\* one shared entry
C13_Witness ==
    /\ last = [method |-> "create", res |-> "throw"]
    /\ \E s \in DOMAIN codeExecMap :
          /\ codeExecMap[s] # 0
          /\ refs[codeExecMap[s]].count = 2
          /\ Cardinality(Referencers(s)) = 2

\* C14: when the create of a program with an attribute length mismatch or an
\* illegal size/type combination fails, the entity table, the shared-program
\* table and the reference counts are as before the call, and the id is not
\* left marked pending.
C14_FailedCreateLeavesNoTrace ==
    [][\A t \in TaskIds :
        ResolveCreate(t) /\ tasks[t].program.attribs # "valid" =>
            /\ UNCHANGED <<idExecMap, codeExecMap, refs>>
            /\ isPending'[tasks[t].id] # t]_vars

\* the id is neither in the entity table nor marked pending
Unknown(id) == ~has(Mem, id) /\ isPending[id] = 0

\* C15: freeEntity (called while Idle) with an id that is neither registered
\* nor pending throws and changes nothing: the draw list, the entity table,
\* the shared-program table, the reference counts and the buffers of every
\* executable are as before.
C15_FreeUnknownRejected ==
    [][\A id \in DOMAIN idExecMap :
        ~isBusy /\ Unknown(id) /\ FreeEntity(id) =>
            /\ last' = [method |-> "freeEntity", res |-> "throw"]
            /\ UNCHANGED <<entities, idExecMap, codeExecMap, refs, execs,
                           globalBuffers, isPending, tasks>>]_vars

\* C15 witness: freeEntity has just thrown while the only registered entity is
\* one that freeEntity frees without an error, so the id was an unknown one
C15_Witness ==
    /\ last = [method |-> "freeEntity", res |-> "throw"]
    /\ entities # <<>>
    /\ \E id \in DOMAIN idExecMap :
          /\ has(Mem, id)
          /\ execs[idExecMap[id].executable].uniformBuffer # 0
          /\ codeExecMap[idExecMap[id].shaderId] # 0
          /\ execs[refs[codeExecMap[idExecMap[id].shaderId]].executable].uniformBuffer # 0
          /\ \A other \in DOMAIN idExecMap \ {id} : Unknown(other)

\* the call throws and the draw list and the z keys are as before
Rejected(method) ==
    /\ last' = [method |-> method, res |-> "throw"]
    /\ UNCHANGED <<entities, ZKeys>>

\* C16: addToScene, removeFromScene and update (called while Idle) with an id
\* that is neither registered nor pending throw and leave the draw list and
\* the z key of every executable unchanged.
C16_SceneCallsRejectUnknown ==
    [][\A id \in DOMAIN idExecMap :
        ~isBusy /\ Unknown(id) =>
            /\ AddToScene(id) => Rejected("addToScene")
            /\ RemoveFromScene(id) => Rejected("removeFromScene")
            /\ \A z \in ZArgs : Update(id, z) => Rejected("update")]_vars

\* C16 witness: update has just thrown while the only registered entity, which
\* is in the draw list, is one that update accepts, so the id was an unknown one
C16_Witness ==
    /\ last = [method |-> "update", res |-> "throw"]
    /\ \E id \in DOMAIN idExecMap :
          /\ has(Mem, id)
          /\ execs[idExecMap[id].executable].uniformBuffer # 0
          /\ idExecMap[id].executable \in Range(entities)
          /\ \A other \in DOMAIN idExecMap \ {id} : Unknown(other)

\* C17: the draw list is ordered by ascending z key. The entries that have a
\* number as z key are compared; an entry whose z key is undefined (update
\* without a z argument) is in no order with the others.
C17_DrawListAscending ==
    \A i, j \in DOMAIN entities :
        /\ i < j
        /\ execs[entities[i]].z # Undefined
        /\ execs[entities[j]].z # Undefined
        => execs[entities[i]].z <= execs[entities[j]].z

\* C18: a call of draw() while the frame loop is running (#inExecution is
\* set) draws no frame, starts and schedules no tick and changes nothing else.
C18_DrawWhileRunning ==
    [][inExecution /\ Draw =>
        /\ ~frames'.drew
        /\ UNCHANGED <<loops, isBusy, inExecution, events, idExecMap, isPending,
                       codeExecMap, refs, execs, rendererZ, globalBuffers,
                       entities, cameras, tasks, ran>>]_vars

\* C18 witness: draw() was called while the loop was running, and a tick of
\* that loop is scheduled
C18_Witness ==
    /\ last = [method |-> "draw", res |-> "noop"]
    /\ inExecution
    /\ \E l \in Loops : loops[l].pc = "scheduled"

\* C19: after stop() at most one frame is drawn (the frame of the tick that
\* was scheduled or running), as long as draw() is not called again.
C19_OneFrameAfterStop == frames.afterStop <= 1

\* the call throws if and only if `fails`, and then no global buffer changes
FailsExactlyWhen(method, fails) ==
    /\ last' = [method |-> method, res |-> "throw"] <=> fails
    /\ fails => UNCHANGED globalBuffers

\* C20: createGlobalBuffer throws, and leaves every buffer as it is, exactly
\* when a buffer of that name exists, else it creates the buffer;
\* writeGlobalBuffer throws, and writes nothing, exactly when no buffer of
\* that name exists, else the buffer has the values written. (For the calls
\* that are executed: made while Idle, or with the priority flag.)
C20_GlobalBufferErrors ==
    [][\A b \in BufferIds :
        /\ ~isBusy /\ CreateGlobalBuffer(b) =>
              /\ FailsExactlyWhen("createGlobalBuffer", globalBuffers[b] # NoBuffer)
              /\ globalBuffers[b] = NoBuffer =>
                    globalBuffers' = [globalBuffers EXCEPT ![b] = Empty]
        /\ \A v \in Values, p \in BOOLEAN :
              (p \/ ~isBusy) /\ WriteGlobalBuffer(b, v, p) =>
                  /\ FailsExactlyWhen("writeGlobalBuffer", globalBuffers[b] = NoBuffer)
                  /\ globalBuffers[b] # NoBuffer =>
                        globalBuffers' = [globalBuffers EXCEPT ![b] = v]]_vars

\* C20 witness: createGlobalBuffer has just thrown for a buffer that values
\* had been written to, while the other buffer does not exist
C20_Witness ==
    /\ last = [method |-> "createGlobalBuffer", res |-> "throw"]
    /\ globalBuffers["light"] \in Values
    /\ globalBuffers[DEFAULT_CAMERA_BUFFER_ID] = NoBuffer

\* the camera is in the camera table
HasCamera(sceneId, cameraId) ==
    \E i \in DOMAIN cameras[sceneId] : cameras[sceneId][i].cameraId = cameraId

\* C21: updateCamera (called while Idle) throws and leaves the camera table
\* as it is when the scene or the camera is not in the table; otherwise the
\* table differs in the values of that camera only, and every camera keeps
\* its position in the registration order of its scene.
C21_UpdateCameraInPlace ==
    [][\A s \in SceneIds, c \in CameraIds, v \in Values :
        ~isBusy /\ UpdateCamera(s, c, v) =>
            IF HasCamera(s, c)
            THEN /\ last' = NoCall
                 /\ cameras' = [cameras EXCEPT ![s] =
                        [i \in DOMAIN cameras[s] |->
                            IF cameras[s][i].cameraId = c
                            THEN [cameraId |-> c, values |-> v]
                            ELSE cameras[s][i]]]
            ELSE /\ last' = [method |-> "updateCamera", res |-> "throw"]
                 /\ cameras' = cameras]_vars

\* C21 witness: updateCamera has just thrown for a camera that is not in a
\* scene that has another camera
C21_Witness ==
    /\ last = [method |-> "updateCamera", res |-> "throw"]
    /\ \E s \in SceneIds : Len(cameras[s]) = 1

\* C26: a frame is one render pass in which the draw list (as it is when the
\* tick starts) is issued once if the current scene has no camera, with no
\* write of the camera buffer, and else once per camera in registration
\* order, each time directly after the write of that camera's values; the
\* submit is the last operation and the only submit.
C26_FramePerCamera ==
    [][frames'.drew =>
        LET cams == cameras[0]
            n == Len(cams)
            ops == frames'.issued
            body == SubSeq(ops, 2, Len(ops) - 1)
        IN /\ Len(ops) >= 3
           /\ ops[1] = Begin
           /\ ops[Len(ops)] = Submit
           /\ \A k \in DOMAIN body : body[k] \notin {Begin, Submit}
           /\ IF n = 0 THEN body = <<Issue(entities)>>
              ELSE /\ Len(body) = 2 * n
                   /\ \A i \in 1..n :
                         /\ body[2 * i - 1] = Write(cams[i].values)
                         /\ body[2 * i] = Issue(entities)]_vars

\* C26 witness: a frame was drawn for two cameras that hold different values
C26_Witness ==
    /\ frames.drew
    /\ Len(frames.issued) = 6
    /\ frames.issued[2].values # frames.issued[4].values

\* the vertex descriptor was composed into a vertex buffer
Composed == output.op = "createVertexBuffer" /\ output.created

\* all attributes of the descriptor hold the same number of elements
Consistent(descriptor) ==
    \A i, j \in DOMAIN descriptor :
        Len(descriptor[i].values) * descriptor[j].size
            = Len(descriptor[j].values) * descriptor[i].size

\* the attributes' formats are all legal ones
Legal(descriptor) ==
    \A i \in DOMAIN descriptor :
        ~(descriptor[i].size \in {1, 3} /\ BYTES_PER_ELEMENT(descriptor[i].type) < 4)

RECURSIVE BytesOfFirst(_, _)
\* component_count x byte_width summed over the first n attributes
BytesOfFirst(descriptor, n) ==
    IF n = 0 THEN 0
    ELSE BytesOfFirst(descriptor, n - 1)
            + descriptor[n].size * BYTES_PER_ELEMENT(descriptor[n].type)

\* C22: a descriptor whose attributes all hold len elements (and have legal
\* formats) is composed, with a stride that is the sum of component count x
\* byte width over its attributes, with every attribute at the offset that is
\* this sum over the attributes before it, and into a buffer of stride x len
\* bytes.
C22_StrideOffsetSize ==
    /\ (/\ output.op = "createVertexBuffer"
        /\ input # <<>>
        /\ Consistent(input)
        /\ Legal(input)) => output.created
    /\ Composed =>
        LET len == Len(input[1].values) \div input[1].size IN
        /\ Consistent(input)
        /\ output.stride = BytesOfFirst(input, Len(input))
        /\ Len(output.attributes) = Len(input)
        /\ \A j \in DOMAIN input :
              /\ output.attributes[j].offset = BytesOfFirst(input, j - 1)
              /\ output.attributes[j].shaderLocation = input[j].location
        /\ output.bufferSize = output.stride * len
        /\ output.size = len

\* C22 witness: two attributes of different byte widths, two elements each
C22_Witness ==
    /\ Composed
    /\ Len(input) = 2
    /\ output.size = 2
    /\ output.attributes[2].offset = 4
    /\ output.stride = 16

\* some attribute holds another number of elements than the first one
Mismatch(descriptor) ==
    \E i \in DOMAIN descriptor :
        Len(descriptor[i].values) * descriptor[1].size
            # Len(descriptor[1].values) * descriptor[i].size

\* C23 as stated: the composition fails with the size-mismatch error exactly
\* when some attribute's element count differs from the first attribute's.
C23_MismatchIsRangeError ==
    output.op = "createVertexBuffer" =>
        (output.res = "RangeError" <=> Mismatch(input))

\* C23: the composition fails whenever some attribute's element count differs
\* from the first attribute's: with the size-mismatch error if no attribute
\* before the first such attribute has an illegal format, and with the type
\* error of that format otherwise. It never fails with the size-mismatch
\* error when all element counts are equal.
C23_FirstFailureDecides ==
    output.op = "createVertexBuffer" =>
        /\ Mismatch(input) => output.res \in {"RangeError", "TypeError"}
        /\ output.res = "RangeError" <=>
              /\ Mismatch(input)
              /\ LET first == CHOOSE i \in DOMAIN input :
                        /\ Mismatch(SubSeq(input, 1, i))
                        /\ ~Mismatch(SubSeq(input, 1, i - 1))
                 IN Legal(SubSeq(input, 1, first - 1))

\* C23 witness: the second attribute holds fewer elements than the first and
\* the call failed with the size-mismatch error
C23_Witness ==
    /\ output.op = "createVertexBuffer"
    /\ output.res = "RangeError"
    /\ Len(input) = 2
    /\ Len(input[1].values) = 2 * input[1].size
    /\ Len(input[2].values) = input[2].size

\* C24: a count of 1 or 3 with an 8-bit or 16-bit integer type is rejected
\* with a type error; every other combination gives the scalar tag of the
\* type, alone for the count 1 and followed by x<count> otherwise.
C24_FormatOfTypeAndCount ==
    output.op = "typeToFormat" =>
        IF output.size \in {1, 3} /\ output.type \in {"u8", "i8", "u16", "i16"}
        THEN output.returned.res = "TypeError"
        ELSE /\ output.returned.res = "ok"
             /\ output.returned.format =
                    IF output.size = 1 THEN TypeFormat(output.type)
                    ELSE TypeFormat(output.type) \o "x" \o ToString(output.size)

\* C24 witness: three 16-bit signed components were rejected
C24_Witness ==
    /\ output.op = "typeToFormat"
    /\ output.type = "i16"
    /\ output.size = 3
    /\ output.returned.res = "TypeError"

\* byte b (counted from 0) of the little-endian encoding of a component
LittleEndianByte(value, b) == (value \div (256 ^ b)) % 256

\* C29: in the composed buffer, component k of element i of attribute j is
\* stored little-endian at byte i x stride + offset_j + k x byte_width_j, by
\* one call of the setter of the attribute's type; the calls write every byte
\* of the buffer exactly once.
C29_InterleavedLittleEndian ==
    Composed =>
        /\ Len(output.buffer) = output.bufferSize
        /\ \A j \in DOMAIN input :
              LET width == BYTES_PER_ELEMENT(input[j].type) IN
              \A i \in 0..(output.size - 1), k \in 0..(input[j].size - 1) :
                 LET at == i * output.stride + output.attributes[j].offset + k * width
                     value == input[j].values[k + i * input[j].size + 1]
                 IN /\ \E c \in DOMAIN output.calls :
                          output.calls[c] = [method |-> TypeMap(input[j].type),
                                             offset |-> at,
                                             value |-> value,
                                             littleEndian |-> TRUE,
                                             width |-> width]
                    /\ \A b \in 0..(width - 1) :
                          output.buffer[at + b + 1] = LittleEndianByte(value, b)
        /\ \A n \in 0..(output.bufferSize - 1) :
              Cardinality({c \in DOMAIN output.calls :
                              /\ output.calls[c].offset <= n
                              /\ n < output.calls[c].offset + output.calls[c].width}) = 1

\* C29 witness: two elements of a 16-bit signed and a 32-bit float attribute
\* were interleaved
C29_Witness ==
    /\ Composed
    /\ Len(input) = 2
    /\ output.size = 2
    /\ input[1].type = "i16"
    /\ input[1].size = 2
    /\ input[2].type = "f32"
    /\ input[2].size = 3
    /\ Len(output.calls) = 10

\* C25: the index buffer holds 16-bit indices when the vertex element count
\* is at most 65535 and 32-bit indices when it is greater; for an empty index
\* list the indices written are 0, 1, ..., len - 1 for the vertex element
\* count len, and the index count returned is len.
C25_IndexWidthAndDefault ==
    output.op = "createIndexBuffer" =>
        LET bytesPerElement == IF input.size <= 65535 THEN 2 ELSE 4 IN
        /\ output.type = IF input.size <= 65535 THEN "uint16" ELSE "uint32"
        /\ output.bufferSize = Len(output.range) * bytesPerElement
        /\ input.indices = <<>> =>
              /\ output.range = [i \in 1..input.size |-> i - 1]
              /\ output.vertexCount = input.size
        /\ input.indices # <<>> => output.vertexCount = Len(input.indices)

\* C25 witness: the default indices of 65536 vertices were written as 32-bit
\* indices
C25_Witness ==
    /\ output.op = "createIndexBuffer"
    /\ input.size = 65536
    /\ input.indices = <<>>
    /\ output.type = "uint32"
    /\ output.range[65536] = 65535

\* updateBinding was called for a binding that the descriptor has
Addressed ==
    /\ output.op = "updateBinding"
    /\ output.group + 1 \in DOMAIN input
    /\ output.binding + 1 \in DOMAIN input[output.group + 1]

\* the slot that the call of updateBinding addresses
Slot == input[output.group + 1][output.binding + 1]

\* C27: updateBinding(g, b, values) for a value slot (g, b) writes the values,
\* encoded as the slot's component type, into the entity's own uniform buffer
\* at the byte offset that the bind group entry of binding b of group g got,
\* whatever bindings precede b and however many groups there are.
C27_ValueWrittenAtItsOffset ==
    (/\ Addressed
     /\ isTypeOfBuffer(Slot)
     /\ ~Slot.global.set
     /\ output.resource = "Array") =>
        LET entry == output.bound.entries[output.group + 1][output.binding + 1] IN
        /\ entry.buffer = "uniformBuffer"
        /\ output.returned.res = "ok"
        /\ output.returned.call =
              [NoGpuCall EXCEPT !.method = "writeBuffer",
                                !.offset = entry.offset,
                                !.type = Slot.type]

RECURSIVE LocalBytes(_, _, _)
\* component count x byte width summed over the buffer slots without a global
\* flag, from group i and binding j (counted from 1) on
LocalBytes(groups, i, j) ==
    IF i > Len(groups) THEN 0
    ELSE IF j > Len(groups[i]) THEN LocalBytes(groups, i + 1, 1)
    ELSE (IF groups[i][j].type # "" /\ ~groups[i][j].global.set
          THEN groups[i][j].size * BYTES_PER_ELEMENT(groups[i][j].type) ELSE 0)
         + LocalBytes(groups, i, j + 1)

\* C28: the uniform buffer of a program has the size that is the sum of
\* component count x byte width over the buffer slots without a global flag,
\* and the running offset of the bind groups ends at that sum: a slot flagged
\* global (named buffer or camera) adds nothing to either.
C28_GlobalSlotsAddNothing ==
    (output.op = "createProgram" /\ input # <<>>) =>
        /\ output.uniformBuffer = LocalBytes(input, 1, 1)
        /\ output.bound.res = "ok" => output.bound.offset = LocalBytes(input, 1, 1)

\* C30: updateBinding uploads an image only for a texture slot and an image
\* reference, writes the uniform buffer only for a typed value slot and a
\* numeric sequence, and for every other combination of slot and value does
\* nothing to the GPU and raises no error.
C30_OnlyMatchingCombinations ==
    Addressed =>
        LET call == output.returned.call
            upload == isTypeOfTexture(Slot) /\ output.resource = "string"
            write == isTypeOfBuffer(Slot) /\ output.resource = "Array"
        IN /\ call.method = "copyExternalImageToTexture" => upload
           /\ call.method = "writeBuffer" => write
           /\ (~upload /\ ~write) =>
                 /\ call = NoGpuCall
                 /\ output.returned.res = "ok"

\* C32: at most one frame loop is alive, i.e. at most one run of the closure
\* `draw` is scheduled with requestAnimationFrame or suspended in its drain.
C32_OneFrameLoop == Cardinality({l \in Loops : loops[l].pc # "none"}) <= 1

\* C31: the depth texture attached to the render pass of a frame has the
\* width and height of the canvas at that frame, and at no moment more than
\* one depth texture is live: the old one is destroyed before the new one is
\* created.
C31_DepthMatchesSurface ==
    [][/\ depthLive'.peak <= 1
       /\ depthLive'.now <= 1
       /\ frames'.drew =>
            /\ cvsTexture' = surface
            /\ depthTexture' = surface
            /\ depthLive'.now = 1]_vars

\* C31 witness: a frame was drawn after the canvas had been resized, and the
\* depth texture of the old size was destroyed
C31_Witness ==
    /\ frames.drew
    /\ depthLive.destroyed
    /\ depthLive.now = 1
    /\ depthTexture = surface

\* C33: a deferred call that fails while the pending queue is drained does
\* not halt the frame loop: a loop that is scheduled or suspended in its drain
\* ends only in a tick that finds the engine stopped, so that after a failing
\* call the drain goes on and the next tick is scheduled.
C33_FailingCallKeepsLoop ==
    [][\A l \in Loops :
          (loops[l].pc # "none" /\ loops'[l].pc = "none") => ~inExecution']_vars

\* a call was queued and has not been executed yet
Unexecuted == \E i \in DOMAIN events : ran[i] = 0

\* C34: mutating calls take effect in the order in which they were issued: a
\* mutating call made by the host while a queued call has not been executed
\* yet is queued behind it and not executed at once.
C34_IssueOrderKept ==
    [][(/\ callsLeft' = callsLeft - 1
        /\ Unexecuted
        /\ ~Draw
        /\ ~Stop) => events' = Append(events, events'[Len(events')])]_vars

\* a create of id has been started and has not registered the entity yet
InFlight(id) ==
    \E t \in DOMAIN tasks : tasks[t].kind \in {"create", "clone"} /\ tasks[t].id = id

\* C35: a create (called while Idle) for an id whose earlier create is still
\* in flight fails as a duplicate, so that at most one create per id takes
\* effect.
C35_OneCreatePerId ==
    [][\A id \in DOMAIN idExecMap, program \in Programs :
        ~isBusy /\ InFlight(id) /\ Create(id, program) =>
            last' = [method |-> "create", res |-> "throw"]]_vars

\* the create of id took the clone path and cloneProgram has not resolved
Cloning(id) == \E t \in DOMAIN tasks : tasks[t].kind = "clone" /\ tasks[t].id = id

\* C36: addToScene, removeFromScene, update and freeEntity called (while Idle)
\* for an id that is not registered and whose create is cloning a shared
\* program do not fail with the unknown-id error.
C36_WaitsForPendingClone ==
    [][\A id \in DOMAIN idExecMap :
          ~isBusy /\ ~has(Mem, id) /\ Cloning(id) =>
              /\ AddToScene(id) => last' # [method |-> "addToScene", res |-> "throw"]
              /\ RemoveFromScene(id) => last' # [method |-> "removeFromScene", res |-> "throw"]
              /\ FreeEntity(id) => last' # [method |-> "freeEntity", res |-> "throw"]
              /\ \A z \in ZArgs :
                    Update(id, z) => last' # [method |-> "update", res |-> "throw"]]_vars

\* C37: the draw list holds each executable at most once, and when
\* removeFromScene or freeEntity (called while Idle for a registered id) has
\* returned, the executable of that entity is not in the draw list.
C37_AtMostOnceInDrawList ==
    [][/\ \A e \in DOMAIN execs' : Occurrences(entities', e) <= 1
       /\ \A id \in DOMAIN idExecMap :
             /\ ~isBusy /\ has(Mem, id)
             /\ RemoveFromScene(id) \/ FreeEntity(id)
             => Occurrences(entities', idExecMap[id].executable) = 0]_vars

\* the descriptors agree on everything a pipeline and a vertex buffer are
\* built from: shader text, effective cull mode, topology and entry points,
\* and the attributes with their location, type, size and values
Agree(a, b) ==
    /\ a.code = b.code
    /\ OrElse(a.cullMode, "back") = OrElse(b.cullMode, "back")
    /\ OrElse(a.topology, "triangle-list") = OrElse(b.topology, "triangle-list")
    /\ OrElse(a.fragmentEntryPoint, "fragment_main")
         = OrElse(b.fragmentEntryPoint, "fragment_main")
    /\ OrElse(a.vertexEntryPoint, "vertex_main") = OrElse(b.vertexEntryPoint, "vertex_main")
    /\ Range(a.vertexDescriptor) = Range(b.vertexDescriptor)

\* C38: two descriptors get the same shaderId only if they agree on shader
\* text, topology, cull mode, both entry points and every vertex attribute's
\* location, component type, component count and values.
C38_SameIdOnlyIfAgree ==
    output.op = "shaderId" =>
        (output.first = output.second => Agree(input.first, input.second))

\* the entries of the bind groups that are bound to a global buffer
GlobalEntries(bound) ==
    UNION {{bound.entries[i][k].buffer : k \in DOMAIN bound.entries[i]} :
                i \in DOMAIN bound.entries} \cap BufferIds

\* the global buffers that the slots of the program name
Named(groups) ==
    UNION {{IF groups[i][j].global.isCamera THEN DEFAULT_CAMERA_BUFFER_ID
            ELSE groups[i][j].global.id : j \in DOMAIN groups[i]} :
                i \in DOMAIN groups} \cap BufferIds

C40_ErrorScopesBalanced ==
    output.op = "scopes" => output.after = output.before

====
